---- MODULE Spec2Model ----
(***************************************************************************)
(* CoinParty mixing peer: the message transport (consistent broadcast and  *)
(* the transaction store), the distributed key generation of the shared    *)
(* value engine, and the session pipeline with its error promise.          *)
(* Every section models one part of the source; MODEL_MAP.json names the   *)
(* source lines of each definition.                                        *)
(***************************************************************************)
EXTENDS Integers, Sequences, FiniteSets, TLC

VARIABLES
    \* ---- consistent broadcast / transaction store ----
    cbN,            \* mixnet size n of the modelled mixnet
    cbByz,          \* ranks of the Byzantine peers (at most t)
    cbSilent,       \* ranks of receivers that never send an ECHO
    transactions,   \* [rank -> [seq -> handle]]: TransactionStore.transactions
    seqctr,         \* [rank -> last sequence number handed out]
    chan,           \* [<<from, to>> -> FIFO of frames]: the TCP connections
    delivered,      \* [rank -> sequence of deliveries (fired callbacks)]
    cbLeaked,       \* signatures the Byzantine peers have been sent
    cbByzFrames,    \* number of frames the Byzantine peers have written
    cbClosed        \* connections <<from, to>> the reactor of `to` has dropped

cbVars == <<cbN, cbByz, cbSilent, transactions, seqctr, chan, delivered,
            cbLeaked, cbByzFrames, cbClosed>>

VARIABLES
    \* ---- distributed key generation (one shared value, all peers) ----
    dkgN,           \* mixnet size n of the modelled mixnet
    dkgAlg,         \* "jfdkg" (JfDkgSmpcValue) or "dkg" (NewDkgSmpcValue)
    dkgFault,       \* behaviour of the peer of the highest rank
    dkg,            \* [rank -> the fields of the peer's SMPC value object]
    dkgChan,        \* [<<from, to>> -> FIFO of messages]: the TCP connections
    dkgCbs,         \* consistent broadcasts that have not yet got their quorum
    dkgClosed       \* connections <<from, to>> the reactor of `to` has dropped

dkgVars == <<dkgN, dkgAlg, dkgFault, dkg, dkgChan, dkgCbs, dkgClosed>>

VARIABLES
    \* ---- sessions of one mixing peer and their escrow pipelines ----
    sess,           \* [mixnet id -> the session's state object and deferreds]
    mstates,        \* mstate._array: the sessions the mixing peer holds
    reactor         \* "running", "stopping" (web server closing), "stopped"

sessVars == <<sess, mstates, reactor>>

VARIABLES
    \* ---- decoupled recombination (one Rec value, all peers) ----
    recN,           \* mixnet size n of the modelled mixnet
    recSecret,      \* the secret whose sharing is recombined
    recCoeff,       \* the coefficient share() drew for the sharing
    recFault,       \* what the last rank does
    rec,            \* [rank -> the peer's RecombinationSmpcValue]
    recChan         \* [<<from, to>> -> mpcp values in flight, FIFO]

recVars == <<recN, recSecret, recCoeff, recFault, rec, recChan>>

VARIABLES
    \* ---- shuffling phase of one mixnet ----
    shN,            \* mixnet size n of the modelled mixnet
    shByz,          \* ranks of the Byzantine peers (at most one)
    shShift,        \* layers for which a user shared its hash + hash_modulus
    sh,             \* [rank -> the peer's ShufflingState and what it sent]
    shChan,         \* [<<from, to>> -> ADDR frames in flight, FIFO]
    shByzAddr       \* number of ADDR frames the Byzantine peer has written

shVars == <<shN, shByz, shShift, sh, shChan, shByzAddr>>

VARIABLES
    \* ---- input-peer gathering of the commitment phase (one mixing peer) ----
    cmMin,          \* CommitmentState._min_peers
    cmMax,          \* CommitmentState._max_peers
    cm              \* the CommitmentState, the reactor's timer and what was frozen

cmVars == <<cmMin, cmMax, cm>>

VARIABLES
    \* ---- input-peer sets of the mixing peers of one mixnet ----
    ip,             \* [rank -> CommitmentState and InputPeerState of the peer]
    ipChan,         \* [rank -> HELO requests on their way to the peer, FIFO]
    ipAnnounced     \* escrows the announcing peer has sent a HELO for

ipVars == <<ip, ipChan, ipAnnounced>>

VARIABLES
    \* ---- commitment phase of one mixing peer: poller and deposits ----
    cp,
    cpLedger

cpVars == <<cp, cpLedger>>

VARIABLES
    \* ---- transaction phase of one mixing peer ----
    txSchedule,
    txState,
    txSent,
    txConcluded

txVars == <<txSchedule, txState, txSent, txConcluded>>

VARIABLES
    \* ---- one value of the shared value engine and its completions ----
    valKind,
    valShare,
    val,
    valReg,
    valFired

valVars == <<valKind, valShare, val, valReg, valFired>>

VARIABLES
    \* ---- the value store of one session and the last call of newValue ----
    smpcValues,
    stCall,
    stRet

stVars == <<smpcValues, stCall, stRet>>

VARIABLES
    \* ---- one Broadcast or Eachcast transaction and the responses it was given ----
    bt,
    btPeers,
    btLog

btVars == <<bt, btPeers, btLog>>

VARIABLES
    \* ---- one handle of the reliable broadcast, what it sent and delivered ----
    rb,
    rbOut,
    rbDelivered,
    rbFrames

rbVars == <<rb, rbOut, rbDelivered, rbFrames>>

VARIABLES
    \* ---- the decoder of one connection: stream, buffer, emitted frames, position in the loop ----
    mrFrames,
    mrPos,
    mrBuffer,
    mrExpected,
    mrEmitted,
    mrPc,
    mrTurn

mrVars == <<mrFrames, mrPos, mrBuffer, mrExpected, mrEmitted, mrPc, mrTurn>>

VARIABLES
    \* ---- the signing of disbursement transactions in one process ----
    sgHosts,
    transaction_ctr,
    sgPc,
    sgSlot,
    sgStore,
    sgChan,
    sgOther

sgVars == <<sgHosts, transaction_ctr, sgPc, sgSlot, sgStore, sgChan, sgOther>>

vars == <<cbVars, dkgVars, sessVars, recVars, shVars, cmVars, ipVars, cpVars, txVars, valVars, stVars, btVars, rbVars, mrVars, sgVars>>

\* What an action of one section leaves alone.
otherThanCb == <<dkgVars, sessVars, recVars, shVars, cmVars, ipVars, cpVars, txVars, valVars, stVars, btVars, rbVars, mrVars, sgVars>>
otherThanDkg == <<cbVars, sessVars, recVars, shVars, cmVars, ipVars, cpVars, txVars, valVars, stVars, btVars, rbVars, mrVars, sgVars>>
otherThanSess == <<cbVars, dkgVars, recVars, shVars, cmVars, ipVars, cpVars, txVars, valVars, stVars, btVars, rbVars, mrVars, sgVars>>
otherThanRec == <<cbVars, dkgVars, sessVars, shVars, cmVars, ipVars, cpVars, txVars, valVars, stVars, btVars, rbVars, mrVars, sgVars>>
otherThanSh == <<cbVars, dkgVars, sessVars, recVars, cmVars, ipVars, cpVars, txVars, valVars, stVars, btVars, rbVars, mrVars, sgVars>>
otherThanCm == <<cbVars, dkgVars, sessVars, recVars, shVars, ipVars, cpVars, txVars, valVars, stVars, btVars, rbVars, mrVars, sgVars>>
otherThanIp == <<cbVars, dkgVars, sessVars, recVars, shVars, cpVars, txVars, valVars, stVars, btVars, rbVars, mrVars, sgVars>>
otherThanCp == <<cbVars, dkgVars, sessVars, recVars, shVars, cmVars, ipVars, txVars, valVars, stVars, btVars, rbVars, mrVars, sgVars>>
otherThanTx == <<cbVars, dkgVars, sessVars, recVars, shVars, cmVars, ipVars, cpVars, valVars, stVars, btVars, rbVars, mrVars, sgVars>>
otherThanVal == <<cbVars, dkgVars, sessVars, recVars, shVars, cmVars, ipVars, cpVars, txVars, stVars, btVars, rbVars, mrVars, sgVars>>
otherThanSt == <<cbVars, dkgVars, sessVars, recVars, shVars, cmVars, ipVars, cpVars, txVars, valVars, btVars, rbVars, mrVars, sgVars>>
otherThanBt == <<cbVars, dkgVars, sessVars, recVars, shVars, cmVars, ipVars, cpVars, txVars, valVars, stVars, rbVars, mrVars, sgVars>>
otherThanRb == <<cbVars, dkgVars, sessVars, recVars, shVars, cmVars, ipVars, cpVars, txVars, valVars, stVars, btVars, mrVars, sgVars>>
otherThanMr == <<cbVars, dkgVars, sessVars, recVars, shVars, cmVars, ipVars, cpVars, txVars, valVars, stVars, btVars, rbVars, sgVars>>
otherThanSg == <<cbVars, dkgVars, sessVars, recVars, shVars, cmVars, ipVars, cpVars, txVars, valVars, stVars, btVars, rbVars, mrVars>>

\* A section that takes no part in a specification stays in this state.
CbIdle ==
    /\ cbN = 0 /\ cbByz = {} /\ cbSilent = {} /\ transactions = <<>>
    /\ seqctr = <<>> /\ chan = <<>> /\ delivered = <<>> /\ cbLeaked = {}
    /\ cbByzFrames = 0 /\ cbClosed = {}

DkgIdle ==
    /\ dkgN = 0 /\ dkgAlg = "" /\ dkgFault = "" /\ dkg = <<>>
    /\ dkgChan = <<>> /\ dkgCbs = {} /\ dkgClosed = {}

SessIdle == sess = <<>> /\ mstates = {} /\ reactor = ""

RecIdle ==
    /\ recN = 0 /\ recSecret = 0 /\ recCoeff = 0 /\ recFault = ""
    /\ rec = <<>> /\ recChan = <<>>

ShIdle ==
    /\ shN = 0 /\ shByz = {} /\ shShift = {} /\ sh = <<>> /\ shChan = <<>>
    /\ shByzAddr = 0

CmIdle == cmMin = 0 /\ cmMax = 0 /\ cm = <<>>

IpIdle == ip = <<>> /\ ipChan = <<>> /\ ipAnnounced = {}

CpIdle == cp = <<>> /\ cpLedger = <<>>

TxIdle == txSchedule = <<>> /\ txState = <<>> /\ txSent = {} /\ txConcluded = FALSE

ValIdle == valKind = "" /\ valShare = 0 /\ val = <<>> /\ valReg = <<>> /\ valFired = <<>>

StIdle == smpcValues = <<>> /\ stCall = <<>> /\ stRet = <<>>

BtIdle == bt = <<>> /\ btPeers = {} /\ btLog = <<>>

RbIdle == rb = <<>> /\ rbOut = <<>> /\ rbDelivered = <<>> /\ rbFrames = 0

MrIdle == mrFrames = <<>> /\ mrPos = 0 /\ mrBuffer = <<>> /\ mrExpected = 0 /\ mrEmitted = <<>> /\ mrPc = "" /\ mrTurn = 0

SgIdle == sgHosts = <<>> /\ transaction_ctr = <<>> /\ sgPc = <<>> /\ sgSlot = <<>> /\ sgStore = <<>> /\ sgChan = {} /\ sgOther = <<>>

-----------------------------------------------------------------------------
(* Bounds of the model.                                                    *)

MaxSeq == 1
MaxFinlSigs == 1
MaxByzFrames == 7

MixnetSizes == {3, 4}
Msgs == {"m1", "m2"}
HonestMsg == "m1"     \* what the honest sender broadcasts
Seqs == 1..MaxSeq

-----------------------------------------------------------------------------
(* Mixnet parameters.                                                      *)

Ranks(n) == 0..(n - 1)

\* MixnetState.__init__: _secret_threshold = int(floor(mixnet_size / 3.0))
MixpeerThreshold(n) == n \div 3

\* ConsistentBroadcastTransaction.__init__: _t_echo, "to resemble ceil()"
TEcho(n, t) == (n + t + 1 + ((n + t + 1) % 2)) \div 2

\* MixnetState.getConnectedMixpeers / getOtherMixpeers: all peers but me
OtherMixpeers(n, p) == Ranks(n) \ {p}

-----------------------------------------------------------------------------
(* Signatures.  crypt.sign / crypt.verify of pyelliptic: a signature is    *)
(* valid for (rank, m) iff it was made with rank's key over m.             *)

NoMsg == "none"
NoSig == [signer |-> -1, m |-> NoMsg]          \* Python None
BadSig == [signer |-> -2, m |-> NoMsg]         \* bytes that verify for nobody

Sign(r, m) == [signer |-> r, m |-> m]
Verify(r, sig, m) == sig.signer = r /\ sig.m = m /\ m # NoMsg

-----------------------------------------------------------------------------
(* Transaction handles.                                                    *)

NoHandle == [kind |-> "none", msg |-> NoMsg, sender_rank |-> -1,
             echos |-> <<>>, remaining |-> {}]

\* ConsistentBroadcastTransaction.__init__ (passive: msg = None)
NewPassive(n) ==
    [kind |-> "active", msg |-> NoMsg, sender_rank |-> -1,
     echos |-> [i \in Ranks(n) |-> NoSig], remaining |-> {}]

\* ConsistentBroadcastTransaction.__init__ with msg, then sendSend
NewSender(n, p, m) ==
    [kind |-> "active", msg |-> m, sender_rank |-> p,
     echos |-> [i \in Ranks(n) |-> IF i = p THEN Sign(p, m) ELSE NoSig],
     remaining |-> {}]

\* ConsistentBroadcastTransaction.getEchoNumber
GetEchoNumber(h) == Cardinality({i \in DOMAIN h.echos : h.echos[i] # NoSig})

\* ConsistentBroadcastTransaction._killMe: the zombie that replaces a
\* delivered handle; it remembers the ranks whose ECHO is still missing.
KilledConsistentBroadcastTransaction(h) ==
    [kind |-> "killed", msg |-> NoMsg, sender_rank |-> -1, echos |-> <<>>,
     remaining |-> {i \in DOMAIN h.echos : h.echos[i] = NoSig}]

\* Frames of the consistent broadcast (Requests.cbrc.encode / decode).
\* hsig: whether the header signature verifies under the key of `rank`.
Frame(type, rank, seq, m, s, hsig) ==
    [type |-> type, rank |-> rank, seq |-> seq, m |-> m, s |-> s, hsig |-> hsig]

\* The result of a handler: the handle left in the store under seq, the
\* frames sent (pairs <<to, frame>>), the delivery made (or <<>>), and the
\* exception raised (or "").
Result(h, out, dlv, exc) == [h |-> h, out |-> out, dlv |-> dlv, exc |-> exc]

\* sendFinal: the list [[i, echos[i]] ...] of the stored signatures
RECURSIVE SigList(_, _)
SigList(echos, i) ==
    IF i \notin DOMAIN echos THEN <<>>
    ELSE (IF echos[i] # NoSig THEN << <<i, echos[i]>> >> ELSE <<>>)
         \o SigList(echos, i + 1)

\* ConsistentBroadcastTransaction.receivedFinal: every listed signature
\* must verify over the stored message; nothing else is required.
SigsValid(sigs, m) ==
    \A k \in 1..Len(sigs) : Verify(sigs[k][1], sigs[k][2], m)

\* ConsistentBroadcastTransaction.broadcast: one frame to every other peer
Broadcast(n, p, fr) ==
    LET RECURSIVE To(_)
        To(i) == IF i >= n THEN <<>>
                 ELSE (IF i # p THEN << <<i, fr>> >> ELSE <<>>) \o To(i + 1)
    IN  To(0)

\* receivedFinal on handle h of peer p: deliver and turn into the zombie
ReceivedFinal(h, p, seq, sigs, out) ==
    IF SigsValid(sigs, h.msg)
    THEN Result(KilledConsistentBroadcastTransaction(h), out,
                << [seq |-> seq, sender |-> h.sender_rank, m |-> h.msg] >>, "")
    ELSE Result(h, out, <<>>, "")

\* receivedSend, sendEcho, singlecast on a handle that knows no message yet
ReceivedSend(h, n, p, fr, silent) ==
    LET h1 == [h EXCEPT !.msg = fr.m, !.sender_rank = fr.rank]
        echo == Frame("e", p, fr.seq, NoMsg, Sign(p, fr.m), TRUE)
    IN  IF fr.rank \notin OtherMixpeers(n, p)
        THEN Result(h1, <<>>, <<>>, "StopIteration")
        ELSE Result(h1, IF silent THEN <<>> ELSE << <<fr.rank, echo>> >>, <<>>, "")

\* receivedEcho, and sendFinal once exactly t_echo signatures are stored
ReceivedEcho(h, n, p, fr) ==
    IF fr.rank \notin OtherMixpeers(n, p)
    THEN Result(h, <<>>, <<>>, "StopIteration")
    ELSE LET h1 == IF Verify(fr.rank, fr.s, h.msg)
                   THEN [h EXCEPT !.echos[fr.rank] = fr.s] ELSE h
             sigs == SigList(h1.echos, 0)
         IN  IF GetEchoNumber(h1) = TEcho(n, MixpeerThreshold(n))
             THEN ReceivedFinal(h1, p, fr.seq, sigs,
                                Broadcast(n, p, Frame("f", p, fr.seq, NoMsg, sigs, TRUE)))
             ELSE Result(h1, <<>>, <<>>, "")

\* ConsistentBroadcastTransaction.receivedResponse
ActiveReceivedResponse(h, n, p, fr, silent) ==
    CASE fr.type = "s" ->
            IF h.msg # NoMsg THEN Result(h, <<>>, <<>>, "")
            ELSE ReceivedSend(h, n, p, fr, silent)
      [] fr.type = "e" -> ReceivedEcho(h, n, p, fr)
      [] fr.type = "f" ->
            IF fr.rank # h.sender_rank THEN Result(h, <<>>, <<>>, "")
            ELSE ReceivedFinal(h, p, fr.seq, fr.s, <<>>)
      [] OTHER -> Result(h, <<>>, <<>>, "")

\* A zombie that hands the last missing ECHO to a fresh active handle.
KilledReceivedResponseResurrect(h, fr) ==
    IF fr.type = "e"
    THEN LET rem == h.remaining \ {fr.rank}
         IN  IF rem = {}
             THEN Result([h EXCEPT !.kind = "active", !.remaining = {}], <<>>, <<>>, "")
             ELSE Result([h EXCEPT !.remaining = rem], <<>>, <<>>, "")
    ELSE Result(h, <<>>, <<>>, "")

\* KilledConsistentBroadcastTransaction.receivedResponse: swallow ECHOs and
\* leave the store once none is missing any more.
KilledReceivedResponse(h, fr) ==
    IF fr.type = "e"
    THEN LET rem == h.remaining \ {fr.rank}
         IN  IF rem = {} THEN Result(NoHandle, <<>>, <<>>, "")
             ELSE Result([h EXCEPT !.remaining = rem], <<>>, <<>>, "")
    ELSE Result(h, <<>>, <<>>, "")

\* P2pServerProtocol.msgReceived for a CBRC frame: the header signature is
\* checked and a failure is logged; getBroadcastTransaction looks the seq
\* up, creates a passive handle for a SEND without one, and
\* cbrc.processRequest hands the frame to the handle.
MsgReceived(h, n, p, fr, silent) ==
    IF h.kind = "none"
    THEN IF fr.type # "s"
         THEN Result(h, <<>>, <<>>, "AttributeError")
         ELSE ActiveReceivedResponse(NewPassive(n), n, p, fr, silent)
    ELSE IF h.kind = "killed"
         THEN KilledReceivedResponse(h, fr)
         ELSE ActiveReceivedResponse(h, n, p, fr, silent)

-----------------------------------------------------------------------------
(* Effects of a handler on the network.                                    *)

Honest(p) == p \in Ranks(cbN) \ cbByz

\* Signatures carried by a frame
FrameSigs(fr) ==
    IF fr.type = "e" THEN {fr.s}
    ELSE IF fr.type = "f" THEN {fr.s[k][2] : k \in 1..Len(fr.s)}
    ELSE {}

\* Frames to honest peers are queued on the connection; frames to
\* Byzantine peers are read by them.
RECURSIVE Enqueue(_, _, _)
Enqueue(c, p, out) ==
    IF out = <<>> THEN c
    ELSE LET to == out[1][1]
             fr == out[1][2]
             c1 == IF to \in cbByz THEN c
                   ELSE [c EXCEPT ![<<p, to>>] = Append(@, fr)]
         IN  Enqueue(c1, p, Tail(out))

LeakedBy(out) ==
    UNION {FrameSigs(out[k][2]) : k \in {j \in 1..Len(out) : out[j][1] \in cbByz}}

\* Apply the result r of a handler that honest peer p ran for a frame with
\* sequence number seq read from the connection of peer `from`.  A handler
\* that raises ends MsgReceiver.dataReceived with the exception, and the
\* reactor then drops that connection.
Apply(p, from, seq, r, c) ==
    /\ cbClosed' = IF r.exc = "" THEN cbClosed ELSE cbClosed \cup {<<from, p>>}
    /\ transactions' = [transactions EXCEPT ![p][seq] = r.h]
    /\ chan' = Enqueue(c, p, r.out)
    /\ delivered' = [delivered EXCEPT ![p] = @ \o r.dlv]
    /\ cbLeaked' = cbLeaked \cup LeakedBy(r.out)

-----------------------------------------------------------------------------
(* Actions of the consistent broadcast.                                    *)

\* TransactionStore.getNextSequenceNumber, ConsistentBroadcastTransaction
\* (msg given) and TransactionStore.addTransaction: rank 0 broadcasts m.
CbStart(m) ==
    /\ Honest(0) /\ m = HonestMsg
    /\ seqctr[0] < MaxSeq
    /\ LET seq == seqctr[0] + 1
           snd == Frame("s", 0, seq, m, NoSig, TRUE)
       IN  /\ seqctr' = [seqctr EXCEPT ![0] = seq]
           /\ Apply(0, 0, seq, Result(NewSender(cbN, 0, m), Broadcast(cbN, 0, snd), <<>>, ""), chan)
    /\ UNCHANGED <<cbN, cbByz, cbSilent, cbByzFrames, otherThanCb>>

\* An honest peer reads the next frame of one of its connections.
CbReceive(p, q) ==
    /\ Honest(p) /\ Honest(q) /\ p # q
    /\ chan[<<q, p>>] # <<>> /\ <<q, p>> \notin cbClosed
    /\ LET fr == Head(chan[<<q, p>>])
       IN  Apply(p, q, fr.seq,
                 MsgReceived(transactions[p][fr.seq], cbN, p, fr, p \in cbSilent),
                 [chan EXCEPT ![<<q, p>>] = Tail(@)])
    /\ UNCHANGED <<cbN, cbByz, cbSilent, seqctr, cbByzFrames, otherThanCb>>

\* Signatures a Byzantine peer can put into a frame: its own over any
\* message, those it has been sent, and garbage.
ByzSigs == {Sign(b, m) : b \in cbByz, m \in Msgs} \cup cbLeaked \cup {BadSig}

ByzSigLists ==
    UNION {[1..k -> {<<s.signer, s>> : s \in ByzSigs \ {BadSig}}
                    \cup {<<r, BadSig>> : r \in Ranks(cbN)}] : k \in 0..MaxFinlSigs}

\* Frames a Byzantine peer b writes to its connection: SEND and FINL in
\* its own name with a valid header signature, ECHO under any claimed
\* rank (the header signature verifies only for its own rank).
ByzFrames(b) ==
    {Frame("s", b, q, m, NoSig, TRUE) : q \in Seqs, m \in Msgs}
    \cup {Frame("e", s.signer, q, NoMsg, s, s.signer = b) : q \in Seqs, s \in ByzSigs \ {BadSig}}
    \cup {Frame("e", r, q, NoMsg, BadSig, FALSE) : r \in Ranks(cbN), q \in Seqs}
    \cup {Frame("f", b, q, NoMsg, l, TRUE) : q \in Seqs, l \in ByzSigLists}

\* An honest peer reads a frame written by a Byzantine peer.
CbByzFrame(p, b) ==
    /\ Honest(p) /\ b \in cbByz
    /\ cbByzFrames < MaxByzFrames /\ <<b, p>> \notin cbClosed
    /\ cbByzFrames' = cbByzFrames + 1
    /\ \E fr \in ByzFrames(b) :
          Apply(p, b, fr.seq, MsgReceived(transactions[p][fr.seq], cbN, p, fr, FALSE), chan)
    /\ UNCHANGED <<cbN, cbByz, cbSilent, seqctr, otherThanCb>>

-----------------------------------------------------------------------------
(* Specifications of the consistent broadcast.                             *)

CbInitCommon ==
    /\ cbN \in MixnetSizes
    /\ transactions = [p \in Ranks(cbN) |-> [q \in Seqs |-> NoHandle]]
    /\ seqctr = [p \in Ranks(cbN) |-> 0]
    /\ chan = [pq \in Ranks(cbN) \X Ranks(cbN) |-> <<>>]
    /\ delivered = [p \in Ranks(cbN) |-> <<>>]
    /\ cbLeaked = {}
    /\ cbByzFrames = 0
    /\ DkgIdle
    /\ SessIdle
    /\ RecIdle
    /\ ShIdle
    /\ CmIdle
    /\ IpIdle
    /\ CpIdle
    /\ TxIdle
    /\ ValIdle
    /\ StIdle
    /\ BtIdle
    /\ RbIdle
    /\ MrIdle
    /\ SgIdle

\* The peer of the highest rank is Byzantine (t = 1 for both mixnet sizes),
\* everybody else follows the protocol.  The Byzantine peer holds an open
\* connection to the servers of two honest peers, peer 1 and another.
CbInit ==
    /\ CbInitCommon
    /\ cbByz = {cbN - 1}
    /\ cbSilent = {}
    /\ \E V \in {W \in SUBSET (Ranks(cbN) \ cbByz) : Cardinality(W) = 2 /\ 1 \in W} :
          cbClosed = (cbByz \X (Ranks(cbN) \ cbByz)) \ (cbByz \X V)

CbNext ==
    \/ \E m \in Msgs : CbStart(m)
    \/ \E p, q \in Ranks(cbN) : CbReceive(p, q)
    \/ \E p, b \in Ranks(cbN) : CbByzFrame(p, b)

SpecCB == CbInit /\ [][CbNext]_vars

\* An honest sender (rank 0), no Byzantine peer, and up to t receivers that
\* process every frame but never send their ECHO.
CbLiveInit ==
    /\ CbInitCommon
    /\ cbByz = {}
    /\ cbClosed = {}
    /\ cbSilent \in {S \in SUBSET (Ranks(cbN) \ {0}) : Cardinality(S) <= MixpeerThreshold(cbN)}

CbLiveNext ==
    \/ \E m \in Msgs : CbStart(m)
    \/ \E p, q \in Ranks(cbN) : CbReceive(p, q)

\* Every frame that was sent is eventually received; the sender broadcasts.
SpecCBLive ==
    /\ CbLiveInit /\ [][CbLiveNext]_vars
    /\ WF_vars(\E m \in Msgs : CbStart(m))
    /\ \A p, q \in UNION {Ranks(n) : n \in MixnetSizes} : WF_vars(CbReceive(p, q))

-----------------------------------------------------------------------------
(* Properties of the consistent broadcast.                                 *)

\* Deliveries of peer p, as a set of indices into its delivery log
Deliveries(p) == 1..Len(delivered[p])

SameSlot(d1, d2) == d1.sender = d2.sender /\ d1.seq = d2.seq

\* C1: agreement of the consistent broadcast.  Whenever two honest peers
\* both deliver for the same sender slot (sender rank, seq), they deliver
\* the same message, whatever SEND frames and FINL signature lists the
\* Byzantine peers write.
C1_Agreement ==
    \A p1, p2 \in Ranks(cbN) \ cbByz :
        p1 # p2 =>
            \A i \in Deliveries(p1), j \in Deliveries(p2) :
                SameSlot(delivered[p1][i], delivered[p2][j])
                    => delivered[p1][i].m = delivered[p2][j].m

\* C2: at one honest peer at most one message is ever delivered for a
\* sender slot (sender rank, seq): no later SEND, ECHO or FINL frame with
\* the same seq leads to a second delivery, also after the zombie handle
\* has left the store.
C2_AtMostOneDelivery ==
    \A p \in Ranks(cbN) \ cbByz :
        \A i, j \in Deliveries(p) :
            i # j => ~SameSlot(delivered[p][i], delivered[p][j])

\* All frames that were sent have been received.
CbQuiet == \A pq \in DOMAIN chan : chan[pq] = <<>>

HasDelivered(p, sender, m) ==
    \E i \in Deliveries(p) : delivered[p][i].sender = sender /\ delivered[p][i].m = m

\* C3: liveness of the consistent broadcast.  With an honest sender, every
\* sent frame received and up to t receivers that never send an ECHO, the
\* sender collects ceil((n+t+1)/2) signatures and broadcasts FINL, and
\* every peer delivers m: once the sender has broadcast and no frame is
\* left in flight, every peer has delivered, for every mixnet size.
C3_DeliveredWhenQuiet ==
    (seqctr[0] > 0 /\ CbQuiet) =>
        \A p \in Ranks(cbN) : HasDelivered(p, 0, HonestMsg)

\* C11: a frame whose header signature does not verify under the key of
\* the rank it names is dropped: the step in which a peer reads it leaves
\* the transaction store, the deliveries and the outgoing frames as they
\* are.
C11_BadSignatureDropped ==
    [][\A p, b \in Ranks(cbN) : \A fr \in ByzFrames(b) :
          (/\ Honest(p) /\ b \in cbByz /\ ~fr.hsig
           /\ <<b, p>> \notin cbClosed
           /\ cbByzFrames' = cbByzFrames + 1
           /\ Apply(p, b, fr.seq,
                    MsgReceived(transactions[p][fr.seq], cbN, p, fr, FALSE), chan))
             => UNCHANGED <<transactions, chan, delivered>>]_vars

\* Peer p has delivered the broadcast with sequence number seq.
DeliveredSeq(p, seq) == \E k \in 1..Len(delivered[p]) : delivered[p][k].seq = seq

\* The ECHO frames peer p may read next: the heads of its connections and
\* whatever a Byzantine peer writes.
NextEchos(p) ==
    {Head(chan[<<q, p>>]) : q \in {r \in Ranks(cbN) : Honest(r) /\ r # p
                                      /\ chan[<<r, p>>] # <<>>
                                      /\ <<r, p>> \notin cbClosed
                                      /\ Head(chan[<<r, p>>]).type = "e"}}
    \cup UNION {{fr \in ByzFrames(b) : fr.type = "e"} :
                   b \in {c \in cbByz : <<c, p>> \notin cbClosed}}

C13_StoreEmptyWhenQuiet ==
    (cbByz = {} /\ cbSilent = {} /\ seqctr[0] > 0 /\ CbQuiet) =>
        \A p \in Ranks(cbN) : \A q \in Seqs : transactions[p][q].kind = "none"

\* Rank q has made a signature over m in the broadcast seq: a Byzantine rank
\* signs what it likes, another rank signs the message of its handle (the
\* sender in sendSend, a receiver in sendEcho) and has no handle left only
\* after its own delivery.
HasSigned(q, seq, m) ==
    \/ q \in cbByz
    \/ transactions[q][seq].msg = m
    \/ \E k \in Deliveries(q) : delivered[q][k].seq = seq /\ delivered[q][k].m = m

\* C34: a peer delivers m only on a FINL with valid signatures over m of at
\* least ceil((n+t+1)/2) distinct ranks; so whenever an honest peer has
\* delivered m, that many ranks have signed m.
C34_FinalCarriesQuorum ==
    \A p \in Ranks(cbN) \ cbByz :
        \A i \in Deliveries(p) :
            Cardinality({q \in Ranks(cbN) :
                            HasSigned(q, delivered[p][i].seq, delivered[p][i].m)})
                >= TEcho(cbN, MixpeerThreshold(cbN))

\* What the sender itself delivers has the quorum: sendFinal runs only when
\* exactly t_echo signatures are stored.
CbSenderDeliversOnQuorum ==
    \A i \in Deliveries(0) :
        delivered[0][i].sender = 0 =>
            \E S \in SUBSET Ranks(cbN) :
                /\ Cardinality(S) >= TEcho(cbN, MixpeerThreshold(cbN))
                /\ \A q \in S : HasSigned(q, delivered[0][i].seq, delivered[0][i].m)

\* The ECHO and FINL frames peer p may read next: the heads of its
\* connections and whatever a Byzantine peer writes.
NextEchoOrFinal(p) ==
    {Head(chan[<<q, p>>]) : q \in {r \in Ranks(cbN) : Honest(r) /\ r # p
                                      /\ chan[<<r, p>>] # <<>>
                                      /\ <<r, p>> \notin cbClosed
                                      /\ Head(chan[<<r, p>>]).type \in {"e", "f"}}}
    \cup UNION {{fr \in ByzFrames(b) : fr.type \in {"e", "f"}} :
                   b \in {c \in cbByz : <<c, p>> \notin cbClosed}}

\* C37: an ECHO or FINL frame whose sequence number has no handle in the
\* store is ignored: no handle is created, nothing is delivered, nothing is
\* sent, and the handler returns without an exception.
C37_UnknownSeqIgnored ==
    \A p \in Ranks(cbN) : Honest(p) =>
        \A fr \in NextEchoOrFinal(p) :
            transactions[p][fr.seq].kind = "none" =>
                LET r == MsgReceived(transactions[p][fr.seq], cbN, p, fr, p \in cbSilent)
                IN  r.h.kind = "none" /\ r.dlv = <<>> /\ r.out = <<>> /\ r.exc = ""

\* The same without the last part: the frame changes nothing in the store
\* and causes no delivery and no frame.
CbUnknownSeqCreatesNothing ==
    \A p \in Ranks(cbN) : Honest(p) =>
        \A fr \in NextEchoOrFinal(p) :
            transactions[p][fr.seq].kind = "none" =>
                LET r == MsgReceived(transactions[p][fr.seq], cbN, p, fr, p \in cbSilent)
                IN  r.h.kind = "none" /\ r.dlv = <<>> /\ r.out = <<>>

-----------------------------------------------------------------------------
(* Distributed key generation: JfDkgSmpcValue and NewDkgSmpcValue.         *)
(* Group elements are written by their discrete logarithm to the base G,   *)
(* so k * G is k and the sum of points is the sum modulo the group order.  *)
(* A list that is still None is the empty sequence.                         *)

DkgOrder == 7            \* stands for bitcoin_order
DkgSizes == {3}
Faults == {"honest", "silent", "withhold", "badshare", "badshare_mute", "accuse",
           "duplicate"}

DkgRanks == Ranks(dkgN)
DkgT == MixpeerThreshold(dkgN)
FaultyRank == dkgN - 1
AccusedRank == FaultyRank - 1

\* The faulty peer runs the protocol unless it is silent or withholds.
Runs(p) == ~(p = FaultyRank /\ dkgFault \in {"silent", "withhold"})
\* A silent peer does not even sign the SEND frames of the others.
Echoes(p) == ~(p = FaultyRank /\ dkgFault = "silent")
HonestPeers == IF dkgFault = "honest" THEN DkgRanks ELSE DkgRanks \ {FaultyRank}

RECURSIVE Pow(_, _)
Pow(j, k) == IF k = 0 THEN 1 ELSE j * Pow(j, k - 1)

RECURSIVE SumOver(_, _)
\* reduce(lambda x, y: x + y, ...) over the values f[i], i in S
SumOver(f, S) ==
    IF S = {} THEN 0
    ELSE LET i == CHOOSE x \in S : TRUE
         IN  (f[i] + SumOver(f, S \ {i})) % DkgOrder

RECURSIVE SetToSeq(_)
\* the ranks of a set in ascending order
SetToSeq(S) ==
    IF S = {} THEN <<>>
    ELSE LET m == CHOOSE x \in S : \A y \in S : x <= y
         IN  <<m>> \o SetToSeq(S \ {m})

\* shamir.share(randint(order), n, t, order, True): the factors of the
\* polynomial of peer i; factor k of the source is element k + 1 here.
Factors1(i) == [k \in 1..(DkgT + 1) |-> (i + k) % DkgOrder]
Factors2(i) == [k \in 1..(DkgT + 1) |-> (2 * i + k + 1) % DkgOrder]

\* sum_k (j ** k) * factors[k]
Poly(factors, j) ==
    SumOver([k \in DOMAIN factors |-> (factors[k] * Pow(j, k - 1)) % DkgOrder],
            DOMAIN factors)

\* The public value of the JF-DKG value 'H', the second generator of the
\* commitments (NewDkgSmpcValue.__init__, _set_H).
HPoint == SumOver([i \in DkgRanks |-> Factors1(i)[1]], DkgRanks)

\* createPrivateKeyShare / createSecretShares: _transmitted_secrets[r]
TransmittedSecret(i, r) ==
    IF dkgAlg = "jfdkg" THEN << Poly(Factors1(i), r + 1) >>
    ELSE << Poly(Factors1(i), r + 1), Poly(Factors2(i), r + 1) >>

\* What peer i really writes to rank r: the faulty peer hands rank 0 a
\* share that does not lie on its polynomial.
SentSecret(i, r) ==
    LET s == TransmittedSecret(i, r)
    IN  IF i = FaultyRank /\ dkgFault \in {"badshare", "badshare_mute"} /\ r = 0
        THEN [s EXCEPT ![1] = (@ + 1) % DkgOrder]
        ELSE s

\* _public_values = [factors[k] * G]
PublicValues(i) == Factors1(i)
\* _commitments = [_public_values[k] + factors2[k] * H]
Commitments(i) ==
    [k \in 1..(DkgT + 1) |-> (Factors1(i)[k] + Factors2(i)[k] * HPoint) % DkgOrder]

\* JfDkgSmpcValue.verifyShare / NewDkgSmpcValue.verifyPublicValue:
\* share * G == sum_k (j ** k) * public_shares[k]
verifyShare(share, public_shares, checked_rank) ==
    share % DkgOrder = Poly(public_shares, checked_rank + 1)

\* NewDkgSmpcValue.verifyCommitment:
\* share[0] * G + share[1] * H == sum_k (j ** k) * commitments[k]
verifyCommitment(share, commitments, share_owner) ==
    (share[1] + share[2] * HPoint) % DkgOrder = Poly(commitments, share_owner + 1)

COMMIT == "commit"
PUBVAL == "pubval"

\* cmpr._msg = struct('>HH') and the slice cmpr.decode hands to unpack
CmprStructSize == 4
CmprBlamerSlice == 2
\* struct.unpack raises unless the string has exactly the struct's size
cmprDecode == CmprBlamerSlice = CmprStructSize

\* ConsistentBroadcastTransaction.broadcast: _internal_singlecast skips
\* a lost instance with a log line.
CbBroadcast(v, p, m) ==
    [v EXCEPT !.out = @ \o [i \in 1..(dkgN - 1) |->
                              [to |-> SetToSeq(DkgRanks \ {p})[i], msg |-> m]]]

\* The peers that the SEND frame of a new consistent broadcast reaches:
\* the connection is open and no frame that ends it is on the way.
Reach(p) ==
    {q \in DkgRanks \ {p} :
        /\ <<p, q>> \notin dkgClosed
        /\ \A i \in 1..Len(dkgChan[<<p, q>>]) : dkgChan[<<p, q>>][i].type # "cmpr"}

Msg(type, from, x) == [type |-> type, from |-> from, x |-> x, reach |-> {}]
\* the inner message of a consistent broadcast
CbMsg(type, from, x) == [type |-> type, from |-> from, x |-> x, reach |-> Reach(from)]

\* The SMPC value object of a peer right after its construction
\* (SmpcValue, ActiveSmpcValue, JfDkgSmpcValue / NewDkgSmpcValue __init__),
\* with the peer['instance'] entries of its MixnetState that were lost,
\* the consistent broadcasts of its own that are under way (own_pending)
\* and two observations: the peers missing when the collecting timeout
\* ran (expired_missing) and the peers it started a complaint broadcast
\* against (comps).  out, newcb and exc carry what one handler run sends,
\* starts and raises.
NewValue ==
    [pc |-> "idle", round |-> 0,
     received_secrets |-> [i \in DkgRanks |-> <<>>],
     received_public_values |-> [i \in DkgRanks |-> <<>>],
     received_commitments |-> [i \in DkgRanks |-> <<>>],
     shares_ready |-> FALSE, public_values_ready |-> FALSE, commitments_ready |-> FALSE,
     complaint_naks |-> {},
     open_complaints |-> [c \in DkgRanks \X DkgRanks |-> "none"],
     disqualify_marked |-> {}, qualified |-> DkgRanks,
     complaint_counter |-> [i \in DkgRanks |-> 0],
     timers |-> <<>>,
     value_timeout |-> 0, complaint_timeout |-> 0, open_complaint_timeout |-> 0,
     complaints_finished |-> {}, dls |-> {},
     own_pending |-> {}, lost |-> {},
     expired_missing |-> {}, comps |-> {},
     secret_share |-> -1, public_value |-> -1, error |-> "",
     out |-> <<>>, newcb |-> {}, exc |-> ""]

\* for peer in peers: peer['instance'].request(msg): the loop of the
\* Broadcast / Eachcast constructors; a lost instance is None and raises.
RECURSIVE RequestFrom(_, _, _, _)
RequestFrom(v, p, msgs, i) ==
    IF i >= dkgN \/ i \in v.lost THEN <<>>
    ELSE (IF i # p THEN << [to |-> i, msg |-> msgs[i]] >> ELSE <<>>)
         \o RequestFrom(v, p, msgs, i + 1)

RequestAll(v, p, msgs) ==
    [v EXCEPT !.out = @ \o RequestFrom(v, p, msgs, 0),
              !.exc = IF v.lost = {} THEN @ ELSE "AttributeError"]

\* ConsistentBroadcastTransaction(...) + addTransaction: the constructor
\* sends the SEND frames.
NewCb(v, m) ==
    [v EXCEPT !.newcb = @ \cup {m}, !.own_pending = @ \cup {m}]

\* A raised exception ends the callback chain in a failure.
Fail(v, err) == [v EXCEPT !.pc = "failed", !.error = err, !.exc = ""]

\* ActiveSmpcValue.setOpenComplaint / closeOpenComplaint / abortOpenComplaints
setOpenComplaint(v, blaming, blamed) ==
    IF v.open_complaints[<<blaming, blamed>>] = "none"
    THEN [v EXCEPT !.open_complaints[<<blaming, blamed>>] = "open"] ELSE v

closeOpenComplaint(v, blaming, blamed) ==
    IF v.open_complaints[<<blaming, blamed>>] = "open"
    THEN [v EXCEPT !.open_complaints[<<blaming, blamed>>] = "closed"] ELSE v

abortOpenComplaints(v) ==
    [v EXCEPT !.open_complaints =
        [c \in DOMAIN @ |-> IF @[c] = "open" THEN "cancelled" ELSE @[c]]]

\* ActiveSmpcValue.markPlayer / disqualifyPlayerSet
markPlayer(v, player) == [v EXCEPT !.disqualify_marked = @ \cup {player}]
disqualifyPlayerSet(v, set) == [v EXCEPT !.qualified = @ \ set]

\* deferLater(clock, _timeout_duration, ...): timers in order of creation
AddTimer(v, kind, round) ==
    [v EXCEPT !.timers = Append(@, [kind |-> kind, round |-> round,
                                    st |-> "pending", due |-> 0])]
\* "is not None and not .called"
Pending(v, idx) == idx # 0 /\ v.timers[idx].st = "pending"
Cancel(v, idx) == [v EXCEPT !.timers[idx].st = "cancelled"]

startCollectingTimeout(v) ==
    LET v1 == AddTimer(v, "value", v.round)
    IN  [v1 EXCEPT !.value_timeout = Len(v1.timers)]

stopCollecting(v, round) ==
    IF dkgAlg = "jfdkg"
    THEN LET v1 == IF Pending(v, v.value_timeout) THEN Cancel(v, v.value_timeout) ELSE v
         IN  [v1 EXCEPT !.shares_ready = TRUE, !.public_values_ready = TRUE]
    ELSE LET v1 == IF Pending(v, v.value_timeout)
                   THEN [Cancel(v, v.value_timeout) EXCEPT !.value_timeout = 0] ELSE v
         IN  IF round = 0
             THEN [v1 EXCEPT !.shares_ready = TRUE, !.commitments_ready = TRUE]
             ELSE [v1 EXCEPT !.public_values_ready = TRUE]

startComplaintTimeout(v) ==
    LET v1 == AddTimer(v, "open", v.round)
        v2 == [v1 EXCEPT !.open_complaint_timeout = Len(v1.timers)]
        v3 == AddTimer(v2, "complaint", v.round)
    IN  [v3 EXCEPT !.complaint_timeout = Len(v3.timers)]

\* stopComplaintCollecting, the callbacks of its DeferredList:
\* __abort_open_complaint_killer and __fire
DlFire(v, round) ==
    LET v1 == IF Pending(v, v.open_complaint_timeout)
              THEN abortOpenComplaints(Cancel(v, v.open_complaint_timeout))
              ELSE v
    IN  [v1 EXCEPT !.complaints_finished = @ \cup {round}]

\* stopComplaintCollecting(_, round): the DeferredList over the open
\* complaints fires at once if none of them is pending, else later.
stopComplaintCollecting(v, round) ==
    LET v1 == IF dkgAlg = "jfdkg" /\ Pending(v, v.complaint_timeout)
              THEN Cancel(v, v.complaint_timeout) ELSE v
        pending == {x \in DOMAIN v.open_complaints : v.open_complaints[x] = "open"}
    IN  IF pending = {} THEN DlFire(v1, round)
        ELSE [v1 EXCEPT !.dls = @ \cup {[round |-> round, wait |-> pending]}]

RECURSIVE CheckDls(_)
\* The DeferredLists whose complaints have all been closed or cancelled fire.
CheckDls(v) ==
    LET ready == {d \in v.dls : \A x \in d.wait : v.open_complaints[x] # "open"}
    IN  IF ready = {} THEN v
        ELSE LET d == CHOOSE x \in ready : TRUE
             IN  CheckDls(DlFire([v EXCEPT !.dls = @ \ {d}], d.round))

\* ActiveSmpcValue.receivedComplaintNak
receivedComplaintNak(v, peer_rank) ==
    LET v1 == [v EXCEPT !.complaint_naks = @ \cup {peer_rank}]
    IN  IF v1.qualified \subseteq v1.complaint_naks
        THEN stopComplaintCollecting(v1, v1.round) ELSE v1

\* receivedSecretShare of both classes
receivedSecretShareOverwrite(v, peer_rank, share) ==
    IF \/ dkgAlg = "dkg" /\ (peer_rank \notin v.qualified \/ v.round # 0)
       \/ v.shares_ready
    THEN v
    ELSE LET v1 == [v EXCEPT !.received_secrets[peer_rank] = share]
         IN  IF \A i \in DkgRanks : v1.received_secrets[i] # <<>>
             THEN [v1 EXCEPT !.shares_ready = TRUE] ELSE v1

receivedSecretShare(v, peer_rank, share) ==
    IF \/ dkgAlg = "dkg" /\ (peer_rank \notin v.qualified \/ v.round # 0)
       \/ v.shares_ready \/ v.received_secrets[peer_rank] # <<>>
    THEN v
    ELSE LET v1 == [v EXCEPT !.received_secrets[peer_rank] = share]
         IN  IF \A i \in DkgRanks : v1.received_secrets[i] # <<>>
             THEN [v1 EXCEPT !.shares_ready = TRUE] ELSE v1

\* receivedPublicValue of both classes; value = <<tag, points>>, and
\* JF-DKG knows no tag
receivedPublicValue(v, peer_rank, value) ==
    IF dkgAlg = "dkg" /\ peer_rank \notin v.qualified THEN v
    ELSE IF dkgAlg = "dkg" /\ value[1] = COMMIT
    THEN IF v.commitments_ready \/ v.received_commitments[peer_rank] # <<>> THEN v
         ELSE LET v1 == [v EXCEPT !.received_commitments[peer_rank] = value[2]]
              IN  IF \A i \in DkgRanks : v1.received_commitments[i] # <<>>
                  THEN [v1 EXCEPT !.commitments_ready = TRUE] ELSE v1
    ELSE IF v.public_values_ready \/ v.received_public_values[peer_rank] # <<>> THEN v
         ELSE LET v1 == [v EXCEPT !.received_public_values[peer_rank] = value[2]]
                  need == IF dkgAlg = "dkg" THEN v1.qualified ELSE DkgRanks
              IN  IF \A i \in need : v1.received_public_values[i] # <<>>
                  THEN [v1 EXCEPT !.public_values_ready = TRUE] ELSE v1

\* sendSecretShares: the EachcastTransaction and the own share
sendSecretShares(v, p) ==
    LET v1 == RequestAll(v, p, [r \in DkgRanks |-> Msg("mpcs", p, SentSecret(p, r))])
    IN  IF v1.exc # "" THEN v1
        ELSE receivedSecretShare(v1, p, TransmittedSecret(p, p))

\* sendPublicValues: the consistent broadcast of the public values
\* (JF-DKG, Pedersen round 1) or of the commitments (Pedersen round 0)
sendPublicValues(v, p) ==
    LET value == IF dkgAlg = "dkg" /\ v.round = 0
                 THEN <<COMMIT, Commitments(p)>>
                 ELSE <<PUBVAL, PublicValues(p)>>
    IN  receivedPublicValue(NewCb(v, CbMsg("mpcp", p, value)), p, value)

\* The faulty peer that sends duplicates writes a second MPCS to every
\* peer after the first one, with a share that is off by one.
SecondShares(p) ==
    LET to == SetToSeq(DkgRanks \ {p})
    IN  [k \in 1..Len(to) |->
           [to |-> to[k],
            msg |-> Msg("mpcs", p, [TransmittedSecret(p, to[k]) EXCEPT
                                       ![1] = (@ + 1) % DkgOrder])]]

\* NewDkgSmpcValue.initialize, _set_round
SetRound(v, round) ==
    [v EXCEPT !.round = round,
              !.complaint_counter = [i \in DkgRanks |-> 0],
              !.open_complaints = [c \in DkgRanks \X DkgRanks |-> "none"],
              !.complaint_naks = {},
              !.dls = {}]

\* verifyReceivedShares / verifyReceivedCommitments /
\* verifyReceivedPublicValues: the ranks of the ComplainError
ToBlame(v, p) ==
    IF dkgAlg = "jfdkg"
    THEN {i \in DkgRanks :
            \/ v.received_public_values[i] = <<>>
            \/ v.received_secrets[i] = <<>>
            \/ ~verifyShare(v.received_secrets[i][1], v.received_public_values[i], p)}
    ELSE IF v.round = 0
    THEN {i \in DkgRanks :
            \/ v.received_commitments[i] = <<>>
            \/ v.received_secrets[i] = <<>>
            \/ ~verifyCommitment(v.received_secrets[i], v.received_commitments[i], p)}
    ELSE {i \in v.qualified :
            \/ v.received_public_values[i] = <<>>
            \/ v.received_secrets[i] = <<>>
            \/ ~verifyShare(v.received_secrets[i][1], v.received_public_values[i], p)}

\* comp.encode: '{0:x}'.format(opt) accepts None and integers only
compEncode(opt) == opt = <<>>

\* sendComplaints of both classes.  In round 1 of the Pedersen DKG the
\* optional parameter is _received_secrets[i] for the position i in
\* to_blame, a list unless that share is missing.
sendComplaints(v, p, to_blame) ==
    LET blame == SetToSeq(to_blame)
        v1 == IF dkgAlg = "jfdkg" THEN disqualifyPlayerSet(v, to_blame)
              ELSE [v EXCEPT !.disqualify_marked = @ \cup to_blame]
        qual_size == IF dkgAlg = "jfdkg" THEN Cardinality(v1.qualified)
                     ELSE Cardinality(v1.qualified) - Cardinality(v1.disqualify_marked)
        Opt(j) == IF dkgAlg = "dkg" /\ v.round = 1
                  THEN v.received_secrets[j - 1] ELSE <<>>
        \* the positions of to_blame whose broadcast is started
        sent == {j \in 1..Len(blame) : \A i \in 1..j : compEncode(Opt(i))}
        opened == {j \in 1..Len(blame) : j - 1 \in sent \/ j = 1}
        v2 == [v1 EXCEPT
                 !.open_complaints =
                    [c \in DOMAIN @ |->
                        IF @[c] = "none" /\ \E j \in opened : c = <<p, blame[j]>>
                        THEN "open" ELSE @[c]],
                 !.newcb = @ \cup {CbMsg("comp", p, <<blame[j]>>) : j \in sent},
                 !.own_pending = @ \cup {CbMsg("comp", p, <<blame[j]>>) : j \in sent},
                 !.comps = @ \cup {blame[j] : j \in sent}]
    IN  IF sent # 1..Len(blame)
        THEN Fail(v2, "ValueError")
        ELSE IF qual_size <= DkgT THEN Fail(v2, "too_few_players")
        ELSE [v2 EXCEPT !.pc = "wait_comp_cb"]

\* sendComplaintNaks without its BroadcastTransaction
sendComplaintNaksUnsent(v, p) ==
    [receivedComplaintNak(v, p) EXCEPT !.pc = "wait_complaints"]

\* ActiveSmpcValue.sendComplaintNaks, then _wait_for_complaints
sendComplaintNaks(v, p) ==
    LET v1 == RequestAll(v, p, [r \in DkgRanks |-> Msg("ncmp", p, <<>>)])
    IN  IF v1.exc # "" THEN Fail(v1, "AttributeError")
        ELSE [receivedComplaintNak(v1, p) EXCEPT !.pc = "wait_complaints"]

\* cmpr.encode: '{0:x}'.format(justification) raises for the list that
\* the Pedersen DKG keeps as a transmitted secret
cmprEncode(secret_share) == Len(secret_share) = 1

\* sendComplaintReaction of both classes.  The SEND frames leave in the
\* constructor of the transaction; no receiver can decode them, so the
\* broadcast never completes.
sendComplaintReaction(v, p, blaming_peer) ==
    IF ~cmprEncode(TransmittedSecret(p, blaming_peer)) THEN v
    ELSE closeOpenComplaint(
            CbBroadcast(v, p, Msg("cmpr", p, <<blaming_peer, TransmittedSecret(p, blaming_peer)>>)),
            blaming_peer, p)

\* receivedComplaint of both classes; the mute peer does not answer
receivedComplaint(v, p, blamed_peer, blaming_peer) ==
    IF dkgAlg = "dkg" /\ blaming_peer \notin v.qualified THEN v
    ELSE LET v1 == setOpenComplaint(v, blaming_peer, blamed_peer)
         IN  IF dkgAlg = "dkg" /\ v.round # 0 THEN v1
             ELSE IF blamed_peer = p
             THEN IF p = FaultyRank /\ dkgFault = "badshare_mute" THEN v1
                  ELSE sendComplaintReaction(v1, p, blaming_peer)
             ELSE IF dkgAlg = "jfdkg" THEN markPlayer(v1, blamed_peer)
             ELSE LET v2 == [v1 EXCEPT !.complaint_counter[blamed_peer] = @ + 1]
                  IN  IF v2.complaint_counter[blamed_peer] > DkgT
                      THEN markPlayer(v2, blamed_peer) ELSE v2

\* disqualifyPlayers of both classes
disqualifyPlayers(v) ==
    disqualifyPlayerSet(v, {x \in v.qualified : x \in v.disqualify_marked})

\* JfDkgSmpcValue.computePublicValue
computePublicValue(v) ==
    IF \E i \in v.qualified :
            v.received_secrets[i] = <<>> \/ v.received_public_values[i] = <<>>
    THEN Fail(v, "TypeError")
    ELSE [v EXCEPT
            !.secret_share = SumOver([i \in v.qualified |-> v.received_secrets[i][1]],
                                     v.qualified),
            !.public_value = SumOver([i \in v.qualified |-> v.received_public_values[i][1]],
                                     v.qualified),
            !.pc = "done"]

\* NewDkgSmpcValue.setSecretShare
setSecretShare(v) ==
    IF \E i \in v.qualified : v.received_secrets[i] = <<>>
    THEN Fail(v, "TypeError")
    ELSE [v EXCEPT
            !.secret_share = SumOver([i \in v.qualified |-> v.received_secrets[i][1]],
                                     v.qualified)]

\* NewDkgSmpcValue.setPublicValue
setPublicValue(v) ==
    IF \E i \in v.qualified : v.received_public_values[i] = <<>>
    THEN Fail(v, "TypeError")
    ELSE [v EXCEPT
            !.public_value = SumOver([i \in v.qualified |-> v.received_public_values[i][1]],
                                     v.qualified),
            !.pc = "done"]

\* initialize of both classes up to the DeferredList of
\* distributeSharesAndPublicValues / distributeSharesAndCommitments.
\* The accusing faulty peer adds a complaint against an honest peer.
initialize(v, p) ==
    LET v0 == IF dkgAlg = "dkg" THEN SetRound(v, 0) ELSE v
        v1 == startCollectingTimeout(v0)
        v2 == sendSecretShares(sendPublicValues(v1, p), p)
        v3 == IF p = FaultyRank /\ dkgFault = "accuse"
              THEN [v2 EXCEPT !.newcb = @ \cup {CbMsg("comp", p, <<AccusedRank>>)}]
              ELSE IF p = FaultyRank /\ dkgFault = "duplicate"
              THEN [v2 EXCEPT !.out = @ \o SecondShares(p)]
              ELSE v2
    IN  [v3 EXCEPT !.pc = "distribute"]

\* The callbacks behind _wait_for_complaints
Finish(v, p) ==
    LET v1 == disqualifyPlayers(v)
    IN  IF dkgAlg = "dkg" /\ v.round = 1 THEN setPublicValue(v)
        ELSE IF Cardinality(v1.qualified) <= DkgT THEN Fail(v1, "too_few_players")
        ELSE IF dkgAlg = "jfdkg" THEN computePublicValue(v1)
        ELSE LET v2 == setSecretShare(v1)
             IN  IF v2.pc = "failed" THEN v2
                 ELSE [sendPublicValues(startCollectingTimeout(SetRound(v2, 1)), p)
                         EXCEPT !.pc = "distribute"]

\* _wait_for_values / _wait_for_round_values
ValuesReady(v) ==
    IF dkgAlg = "jfdkg" THEN v.public_values_ready /\ v.shares_ready
    ELSE IF v.round = 0 THEN v.commitments_ready /\ v.shares_ready
    ELSE v.public_values_ready

\* The verification, startComplaintTimeout (addBoth, but addCallback in
\* round 1 of the Pedersen DKG), and sendComplaints or sendComplaintNaks
VerifyReceived(v, p) ==
    LET to_blame == ToBlame(v, p)
        v1 == IF to_blame = {} \/ dkgAlg = "jfdkg" \/ v.round = 0
              THEN startComplaintTimeout(v) ELSE v
    IN  IF to_blame = {} THEN sendComplaintNaks(v1, p)
        ELSE sendComplaints(v1, p, to_blame)

\* One callback of the chain of initialize, if its Deferred has fired
Step(v, p) ==
    CASE v.pc = "distribute" ->
            IF \A m \in v.own_pending : m.type # "mpcp"
            THEN [v EXCEPT !.pc = "wait_values"] ELSE v
      [] v.pc = "wait_values" ->
            IF ValuesReady(v) THEN VerifyReceived(v, p) ELSE v
      [] v.pc = "wait_comp_cb" ->
            IF \A m \in v.own_pending : m.type # "comp"
            THEN sendComplaintNaks(v, p) ELSE v
      [] v.pc = "wait_complaints" ->
            IF v.round \in v.complaints_finished THEN Finish(v, p) ELSE v
      [] OTHER -> v

RECURSIVE Run(_, _)
\* Deferreds run their callbacks synchronously as far as they can.
Run(v, p) ==
    LET w == Step(CheckDls(v), p)
    IN  IF w = v THEN v ELSE Run(w, p)

\* processRequest of mpcs, mpcp, comp and ncmp
Deliver(v, p, m) ==
    CASE m.type = "mpcs" -> receivedSecretShare(v, m.from, m.x)
      [] m.type = "mpcp" -> receivedPublicValue(v, m.from, m.x)
      [] m.type = "comp" -> receivedComplaint(v, p, m.x[1], m.from)
      [] m.type = "ncmp" -> receivedComplaintNak(v, m.from)

RECURSIVE DkgEnqueue(_, _, _)
\* transport.write: what is written to a closed connection is lost
DkgEnqueue(c, p, out) ==
    IF out = <<>> THEN c
    ELSE LET o == Head(out)
         IN  DkgEnqueue(IF <<p, o.to>> \in dkgClosed THEN c
                        ELSE [c EXCEPT ![<<p, o.to>>] = Append(@, o.msg)],
                        p, Tail(out))

Cleared(v) == [v EXCEPT !.out = <<>>, !.newcb = {}, !.exc = ""]

\* Time in units of _timeout_duration: the latest expiry so far.  The
\* delay of a message is short against it, so a timer started now runs
\* out one unit later.
DkgNow ==
    LET fired == UNION {{dkg[p].timers[i].due : i \in {j \in 1..Len(dkg[p].timers) :
                            dkg[p].timers[j].st = "fired"}} : p \in DkgRanks}
    IN  IF fired = {} THEN 0 ELSE CHOOSE x \in fired : \A y \in fired : y <= x

\* The value object as the handler leaves it
Installed(v, now) ==
    [Cleared(v) EXCEPT !.timers =
        [i \in DOMAIN @ |-> IF @[i].due = 0 THEN [@[i] EXCEPT !.due = now + 1] ELSE @[i]]]

PendingDues ==
    UNION {{dkg[p].timers[i].due : i \in {j \in 1..Len(dkg[p].timers) :
                dkg[p].timers[j].st = "pending"}} : p \in DkgRanks}

\* The echo quorum of a consistent broadcast: the sender and every peer
\* that receives its SEND and whose ECHO reaches the sender
Echoers(m) ==
    {m.from} \cup {q \in m.reach : Echoes(q) /\ <<q, m.from>> \notin dkgClosed}

QuorumPossible(m) == Cardinality(Echoers(m)) >= TEcho(dkgN, DkgT)

\* No message is in flight and every running peer has started.
DkgQuiet ==
    /\ \A c \in DOMAIN dkgChan : dkgChan[c] = <<>>
    /\ \A m \in dkgCbs : ~QuorumPossible(m)
    /\ \A p \in DkgRanks : Runs(p) => dkg[p].pc # "idle"
    /\ \A c \in dkgClosed : c[2] \in dkg[c[1]].lost

\* create_escrow / the caller of initialize()
DkgInitialize(p) ==
    /\ dkg[p].pc = "idle"
    /\ Runs(p)
    /\ LET v == Run(initialize(dkg[p], p), p)
       IN  /\ dkg' = [dkg EXCEPT ![p] = Installed(v, DkgNow)]
           /\ dkgChan' = DkgEnqueue(dkgChan, p, v.out)
           /\ dkgCbs' = dkgCbs \cup v.newcb
    /\ UNCHANGED <<dkgN, dkgAlg, dkgFault, dkgClosed, otherThanDkg>>

\* P2pServerProtocol.msgReceived for a direct message, or the delivery of
\* a consistent broadcast at a receiver.  The SEND frame of a complaint
\* reaction is decoded outside any Deferred: the exception ends the
\* connection.
DkgReceive(p, q) ==
    /\ dkgChan[<<q, p>>] # <<>>
    /\ Runs(p) => dkg[p].pc # "idle"
    /\ LET m == Head(dkgChan[<<q, p>>])
       IN  IF ~Runs(p)
           THEN /\ dkgChan' = [dkgChan EXCEPT ![<<q, p>>] = Tail(@)]
                /\ UNCHANGED <<dkg, dkgCbs, dkgClosed>>
           ELSE IF m.type = "cmpr" /\ ~cmprDecode
           THEN /\ dkgClosed' = dkgClosed \cup {<<q, p>>}
                /\ dkgChan' = [dkgChan EXCEPT ![<<q, p>>] = <<>>]
                /\ UNCHANGED <<dkg, dkgCbs>>
           ELSE LET v == Run(Deliver(dkg[p], p, m), p)
                IN  /\ dkg' = [dkg EXCEPT ![p] = Installed(v, DkgNow)]
                    /\ dkgChan' = DkgEnqueue([dkgChan EXCEPT ![<<q, p>>] = Tail(@)], p, v.out)
                    /\ dkgCbs' = dkgCbs \cup v.newcb
                    /\ UNCHANGED dkgClosed
    /\ UNCHANGED <<dkgN, dkgAlg, dkgFault, otherThanDkg>>

\* P2pClientProtocol.connectionLost: MixnetState.lostConnection sets the
\* instance of the peer to None.
DkgConnectionLost(q, p) ==
    /\ <<q, p>> \in dkgClosed
    /\ p \notin dkg[q].lost
    /\ dkg' = [dkg EXCEPT ![q].lost = @ \cup {p}]
    /\ UNCHANGED <<dkgN, dkgAlg, dkgFault, dkgChan, dkgCbs, dkgClosed, otherThanDkg>>

\* ConsistentBroadcastTransaction.receivedEcho at the sender when the
\* echo quorum is complete: sendFinal, then the Deferred of the handle
\* fires.  The Pedersen DKG defines a callback on its own handles.
DkgCbQuorum(m) ==
    /\ m \in dkgCbs
    /\ QuorumPossible(m)
    /\ LET s == m.from
           v0 == [dkg[s] EXCEPT !.own_pending = @ \ {m}]
           v1 == IF dkgAlg = "dkg" /\ Runs(s) THEN Deliver(v0, s, m) ELSE v0
           v == Run(v1, s)
       IN  /\ dkg' = [dkg EXCEPT ![s] = Installed(v, DkgNow)]
           /\ dkgChan' = DkgEnqueue(dkgChan, s, CbBroadcast(Cleared(v), s, m).out \o v.out)
           /\ dkgCbs' = (dkgCbs \ {m}) \cup v.newcb
    /\ UNCHANGED <<dkgN, dkgAlg, dkgFault, dkgClosed, otherThanDkg>>

\* The oldest timer of a peer expires (all run _timeout_duration):
\* stopCollecting, __kill_open_complaints or stopComplaintCollecting.
\* Timers are long against the delay of a message.
DkgTimeout(p) ==
    /\ DkgQuiet
    /\ \E idx \in 1..Len(dkg[p].timers) :
        /\ dkg[p].timers[idx].st = "pending"
        /\ \A j \in 1..(idx - 1) : dkg[p].timers[j].st # "pending"
        /\ \A d \in PendingDues : dkg[p].timers[idx].due <= d
        /\ LET t == dkg[p].timers[idx]
               v0 == [dkg[p] EXCEPT !.timers[idx].st = "fired"]
               v1 == CASE t.kind = "value" ->
                            [stopCollecting(v0, t.round) EXCEPT
                               !.expired_missing =
                                  IF t.round # 0 THEN @
                                  ELSE {i \in DkgRanks :
                                          \/ v0.received_secrets[i] = <<>>
                                          \/ IF dkgAlg = "jfdkg"
                                             THEN v0.received_public_values[i] = <<>>
                                             ELSE v0.received_commitments[i] = <<>>}]
                       [] t.kind = "open" -> abortOpenComplaints(v0)
                       [] t.kind = "complaint" -> stopComplaintCollecting(v0, t.round)
               v == Run(v1, p)
           IN  /\ dkg' = [dkg EXCEPT ![p] = Installed(v, t.due)]
               /\ dkgChan' = DkgEnqueue(dkgChan, p, v.out)
               /\ dkgCbs' = dkgCbs \cup v.newcb
    /\ UNCHANGED <<dkgN, dkgAlg, dkgFault, dkgClosed, otherThanDkg>>

DkgInit ==
    /\ CbIdle
    /\ SessIdle
    /\ RecIdle
    /\ ShIdle
    /\ CmIdle
    /\ IpIdle
    /\ CpIdle
    /\ TxIdle
    /\ ValIdle
    /\ StIdle
    /\ BtIdle
    /\ RbIdle
    /\ MrIdle
    /\ SgIdle
    /\ dkgN \in DkgSizes
    /\ dkgAlg \in {"jfdkg", "dkg"}
    /\ dkgFault \in Faults
    /\ dkg = [p \in DkgRanks |-> NewValue]
    /\ dkgChan = [c \in DkgRanks \X DkgRanks |-> <<>>]
    /\ dkgCbs = {}
    /\ dkgClosed = {}

DkgMessages ==
    UNION {{dkgChan[c][i] : i \in 1..Len(dkgChan[c])} : c \in DOMAIN dkgChan}

DkgNext ==
    \/ \E p \in DkgRanks : DkgInitialize(p)
    \/ \E p, q \in DkgRanks : DkgReceive(p, q)
    \/ \E p, q \in DkgRanks : DkgConnectionLost(q, p)
    \/ \E m \in dkgCbs : DkgCbQuorum(m)
    \/ \E p \in DkgRanks : DkgTimeout(p)

\* Messages and timers are not lost: the reactor runs every pending event.
SpecDkg ==
    /\ DkgInit
    /\ [][DkgNext]_vars
    /\ WF_vars(DkgNext)

-----------------------------------------------------------------------------
(* Properties of the distributed key generation                            *)

\* Nothing is left to happen: no message, no quorum, no timer.
DkgTerminal == DkgQuiet /\ PendingDues = {}

TimerFired(p) == \E i \in 1..Len(dkg[p].timers) : dkg[p].timers[i].st = "fired"

\* C4: all honest peers that resolve the instance end with the same
\* qualified set and the same public value.
C4_DkgAgreement ==
    \A p, q \in HonestPeers :
        (dkg[p].pc = "done" /\ dkg[q].pc = "done")
            => /\ dkg[p].qualified = dkg[q].qualified
               /\ dkg[p].public_value = dkg[q].public_value

\* C5: with three peers of which one stays silent, or hands out a share
\* that fails verification and gives no reaction, every honest peer has
\* resolved once nothing is left to happen, and its qualified set is the
\* two honest peers.
C5_ResolvesWithoutFaulty ==
    (dkgN = 3 /\ dkgFault \in {"silent", "badshare_mute"} /\ DkgTerminal)
        => \A p \in HonestPeers :
              dkg[p].pc = "done" /\ dkg[p].qualified = HonestPeers

\* Peer i has answered the complaint of b with a reaction whose share
\* verifies against the public values of i.
ValidReaction(i, b) ==
    /\ dkg[i].open_complaints[<<b, i>>] = "closed"
    /\ verifyShare(TransmittedSecret(i, b)[1], PublicValues(i), b)

\* C6: in JF-DKG an accused peer that has broadcast a valid complaint
\* reaction is in the qualified set of every honest peer that resolved.
C6_ValidReactionKeepsPeer ==
    dkgAlg = "jfdkg"
        => \A i, b \in DkgRanks :
              ValidReaction(i, b)
                 => \A p \in HonestPeers :
                       dkg[p].pc = "done" => i \in dkg[p].qualified

\* C9: a peer whose collecting timeout ran while values of peer i were
\* missing has started a COMP broadcast naming i once nothing is left
\* to happen.
C9_ComplaintAfterExpiry ==
    DkgTerminal
        => \A p \in HonestPeers : dkg[p].expired_missing \subseteq dkg[p].comps

C10_HonestRunNeedsNoTimer ==
    dkgFault = "honest"
        => ((DkgQuiet \/ \E p \in DkgRanks : TimerFired(p))
               => \A p \in DkgRanks : dkg[p].pc = "done")

\* A Pedersen DKG has resolved both rounds at every peer by the NCMPs
\* alone.
C10_Witness ==
    /\ dkgFault = "honest" /\ dkgAlg = "dkg"
    /\ \A p \in DkgRanks :
          /\ dkg[p].pc = "done" /\ dkg[p].round = 1
          /\ dkg[p].qualified \subseteq dkg[p].complaint_naks
          /\ ~TimerFired(p)

\* The timer idx of peer p was started in round 0 by startCollectingTimeout
\* or as the _complaint_timeout of startComplaintTimeout, and runs in this
\* step, after _set_round(1).
LateTimerRuns(p, idx) ==
    /\ dkgAlg = "dkg"
    /\ dkg[p].round = 1
    /\ idx \in DOMAIN dkg[p].timers
    /\ dkg[p].timers[idx].round = 0
    /\ dkg[p].timers[idx].kind \in {"value", "complaint"}
    /\ dkg[p].timers[idx].st = "pending"
    /\ dkg'[p].timers[idx].st = "fired"

\* C35: in the Pedersen DKG a collecting or complaint timer of round 0
\* that runs after round 1 has started has no effect on round 1: it does
\* not conclude the collection of round 1, cancels no timer of round 1 and
\* aborts no open complaint of round 1.
C35_LateTimerLeavesRoundOne ==
    [][\A p \in DkgRanks : \A idx \in DOMAIN dkg[p].timers :
          LateTimerRuns(p, idx) =>
              /\ dkg'[p].public_values_ready = dkg[p].public_values_ready
              /\ \A j \in DOMAIN dkg[p].timers :
                    (dkg[p].timers[j].round = 1 /\ dkg[p].timers[j].st = "pending")
                        => dkg'[p].timers[j].st # "cancelled"
              /\ \A c \in DOMAIN dkg[p].open_complaints :
                    dkg[p].open_complaints[c] = "open"
                        => dkg'[p].open_complaints[c] # "cancelled"]_vars

\* What the round argument of the timers does keep apart: a late timer of
\* round 0 neither concludes the collection of round 1 nor fires the
\* _complaints_finished of round 1.
DkgLateTimerConcludesNothing ==
    [][\A p \in DkgRanks : \A idx \in DOMAIN dkg[p].timers :
          LateTimerRuns(p, idx) =>
              /\ dkg'[p].public_values_ready = dkg[p].public_values_ready
              /\ (1 \in dkg'[p].complaints_finished) = (1 \in dkg[p].complaints_finished)]_vars

-----------------------------------------------------------------------------
(* The Pedersen DKG with messages that reach a peer ahead of its own       *)
(* initialize: msgReceived and getBroadcastTransaction create the value     *)
(* with SmpcStore.newValue and hand the message to it.                      *)

\* P2pServerProtocol.msgReceived at a peer whose value has not been
\* initialized: the value is the one __init__ left, or the one earlier
\* messages left.
DkgReceiveEarly(p, q) ==
    /\ dkgAlg = "dkg"
    /\ dkgChan[<<q, p>>] # <<>>
    /\ Runs(p) /\ dkg[p].pc = "idle"
    /\ LET m == Head(dkgChan[<<q, p>>])
       IN  IF m.type = "cmpr" /\ ~cmprDecode
           THEN /\ dkgClosed' = dkgClosed \cup {<<q, p>>}
                /\ dkgChan' = [dkgChan EXCEPT ![<<q, p>>] = <<>>]
                /\ UNCHANGED <<dkg, dkgCbs>>
           ELSE LET v == Run(Deliver(dkg[p], p, m), p)
                IN  /\ dkg' = [dkg EXCEPT ![p] = Installed(v, DkgNow)]
                    /\ dkgChan' = DkgEnqueue([dkgChan EXCEPT ![<<q, p>>] = Tail(@)], p, v.out)
                    /\ dkgCbs' = dkgCbs \cup v.newcb
                    /\ UNCHANGED dkgClosed
    /\ UNCHANGED <<dkgN, dkgAlg, dkgFault, otherThanDkg>>

DkgEarlyNext ==
    \/ \E p \in DkgRanks : DkgInitialize(p)
    \/ \E p, q \in DkgRanks : DkgReceive(p, q)
    \/ \E p, q \in DkgRanks : DkgReceiveEarly(p, q)
    \/ \E p, q \in DkgRanks : DkgConnectionLost(q, p)
    \/ \E m \in dkgCbs : DkgCbQuorum(m)
    \/ \E p \in DkgRanks : DkgTimeout(p)

SpecDkgEarly ==
    /\ DkgInit
    /\ [][DkgEarlyNext]_vars
    /\ WF_vars(DkgEarlyNext)

\* Peer p calls initialize in this step.
Initializes(p) == dkg[p].pc = "idle" /\ dkg'[p].pc # "idle"

\* C36: a share, a commitment, a complaint or an NCMP that reached a peer
\* ahead of its initialize counts as if it had arrived after it: the
\* initialize of the peer neither loses nor resets it.
C36_EarlyMessagesCount ==
    [][\A p \in DkgRanks : Initializes(p) =>
          /\ \A i \in DkgRanks :
                /\ dkg[p].received_secrets[i] # <<>>
                      => dkg'[p].received_secrets[i] = dkg[p].received_secrets[i]
                /\ dkg[p].received_commitments[i] # <<>>
                      => dkg'[p].received_commitments[i] = dkg[p].received_commitments[i]
                /\ dkg'[p].complaint_counter[i] >= dkg[p].complaint_counter[i]
          /\ dkg[p].complaint_naks \subseteq dkg'[p].complaint_naks
          /\ \A c \in DOMAIN dkg[p].open_complaints :
                dkg[p].open_complaints[c] = "open"
                    => dkg'[p].open_complaints[c] # "none"]_vars

\* The shares and commitments that arrived early are kept by initialize.
DkgEarlyValuesKept ==
    [][\A p \in DkgRanks : Initializes(p) =>
          \A i \in DkgRanks :
              /\ dkg[p].received_secrets[i] # <<>>
                    => dkg'[p].received_secrets[i] = dkg[p].received_secrets[i]
              /\ dkg[p].received_commitments[i] # <<>>
                    => dkg'[p].received_commitments[i] = dkg[p].received_commitments[i]]_vars

\* A peer initializes with a share and a commitment of another peer
\* already stored.
DkgEarlyValuesArrive ==
    \E p \in DkgRanks : \E i \in DkgRanks \ {p} :
        /\ dkg[p].pc = "idle"
        /\ dkg[p].received_secrets[i] # <<>>
        /\ dkg[p].received_commitments[i] # <<>>

-----------------------------------------------------------------------------
(* Sessions of one mixing peer: the escrow pipeline of every session, its  *)
(* error promise, and the shutdown of the peer.                            *)

\* The mixnets the configuration of the mixing peer names.
SessionIds == {"mixnet_a", "mixnet_b"}

\* generate_escrows(_, state, amount=3)
EscrowAmount == 3

SubDkgs == {"d", "k", "e"}

\* BaseState.__init__ and the transport of the session before it is up.
\* A deferred is "none" (not created), "pending", "ok" or "failed".
NewState ==
    [ shutdown_flag    |-> FALSE,
      error_deferred   |-> "unfired",
      mixnet_deferreds |-> "waiting",
      p2p_client       |-> "connecting",
      p2p_server       |-> "listening",
      index            |-> 0,
      dkgs             |-> [x \in SubDkgs |-> "none"],
      d                |-> "none",
      k                |-> "none",
      k_inv_d          |-> "none",
      sync_point       |-> "none",
      escrows          |-> {},
      failed           |-> {} ]

\* create_escrow(_, i): the DKGs of d and k start; e starts when k resolved.
create_escrow(v, i) ==
    [v EXCEPT !.index = i,
              !.dkgs = [x \in SubDkgs |-> IF x = "e" THEN "none" ELSE "running"],
              !.d = "pending", !.k = "pending",
              !.k_inv_d = "pending", !.sync_point = "pending"]

\* compute_k_inv_d_share: DeferredList([k_inv, d]) fires when both have a
\* result, whatever it is; calc then multiplies 'ki' and 'd', and raises
\* on the 'ki' that does not exist when the chain of k failed.
compute_k_inv_d_share(v) ==
    IF v.k_inv_d = "pending" /\ v.k # "pending" /\ v.d # "pending"
    THEN [v EXCEPT !.k_inv_d = IF v.k = "ok" THEN "ok" ELSE "failed"]
    ELSE v

\* sync_point = DeferredList([d, k, k_inv, k_inv_d]) fires when all have a
\* result; store_escrow stores the address, and generate_escrows goes on
\* to the next escrow or, after the last, to the next phase.
sync_point(v) ==
    IF v.sync_point = "pending" /\ v.d # "pending" /\ v.k # "pending"
                                /\ v.k_inv_d # "pending"
    THEN LET w == [v EXCEPT !.sync_point = "ok", !.escrows = @ \cup {v.index}]
         IN  IF v.index + 1 < EscrowAmount
             THEN create_escrow(w, v.index + 1)
             ELSE [w EXCEPT !.mixnet_deferreds = "commit"]
    ELSE v

SessCallbacks(v) == sync_point(compute_k_inv_d_share(v))

\* localShutdown up to the disconnect of the P2P client; the rest runs when
\* the connections are closed.
localShutdown(v) ==
    [v EXCEPT !.shutdown_flag = TRUE,
              !.p2p_client = IF @ = "connected" THEN "disconnecting" ELSE @]

\* globalShutdown: localShutdown for every state of mstate.
globalShutdown(S) ==
    [o \in SessionIds |-> IF o \in mstates THEN localShutdown(S[o]) ELSE S[o]]

\* cancelOperation(self, operation_deferred): the pipeline that has not
\* finished gets a CancelledError, which runs its errback globalShutdown.
cancelOperation(S, s) ==
    IF S[s].mixnet_deferreds \in {"waiting", "escrow", "commit"}
    THEN globalShutdown([S EXCEPT ![s].mixnet_deferreds = "shutdown"])
    ELSE S

cancelOperationParams == <<"operation_deferred">>

\* A call binds its positional arguments to the leading parameters, and
\* raises TypeError if a keyword argument names one of these.
BindRaises(params, args, kwargs) ==
    \E i \in 1..Len(args) : i <= Len(params) /\ params[i] \in kwargs

\* error_deferred.addBoth(self.cancelOperation, operation_deferred=...):
\* the deferred calls cancelOperation(result, operation_deferred=...).
errorCallback(S, s, result) ==
    IF BindRaises(cancelOperationParams, <<result>>, {"operation_deferred"})
    THEN S
    ELSE cancelOperation(S, s)

\* BaseState.triggerErrorDeferred
triggerErrorDeferred(S, s, exception) ==
    IF S[s].error_deferred = "unfired"
    THEN errorCallback([S EXCEPT ![s].error_deferred = "fired"], s, exception)
    ELSE S

\* The web server and the P2P infrastructure of session s are up: the
\* pipeline initializes and enters generate_escrows.
SessStart(s) ==
    /\ reactor = "running"
    /\ sess[s].mixnet_deferreds = "waiting"
    /\ sess' = [sess EXCEPT ![s] =
                  create_escrow([@ EXCEPT !.mixnet_deferreds = "escrow",
                                          !.p2p_client = "connected"], 0)]
    /\ UNCHANGED <<mstates, reactor, otherThanSess>>

\* The DKG of value x of the current escrow resolves.  d fires with the
\* public value; k goes on to the DKG of e; after e the inverse of k is
\* computed and the chain of k has its result.
SessDkgResolved(s, x) ==
    /\ reactor = "running"
    /\ sess[s].dkgs[x] = "running"
    /\ LET v == [sess[s] EXCEPT !.dkgs[x] = "resolved"]
           w == CASE x = "d" -> [v EXCEPT !.d = "ok"]
                  [] x = "k" -> [v EXCEPT !.dkgs["e"] = "running"]
                  [] x = "e" -> [v EXCEPT !.k = "ok"]
       IN  sess' = [sess EXCEPT ![s] = SessCallbacks(w)]
    /\ UNCHANGED <<mstates, reactor, otherThanSess>>

\* The DKG of value x of the current escrow fails: disqualifyPlayers
\* raises ThresholdError.  The public value of d then never fires; the
\* chain of k has a Failure as its result, which the logging errbacks
\* hand on.
SessDkgFailed(s, x) ==
    /\ reactor = "running"
    /\ sess[s].dkgs[x] = "running"
    /\ LET v == [sess[s] EXCEPT !.dkgs[x] = "failed",
                                !.failed = @ \cup {<<x, sess[s].index>>}]
           w == IF x = "d" THEN v ELSE [v EXCEPT !.k = "failed"]
       IN  sess' = [sess EXCEPT ![s] = SessCallbacks(w)]
    /\ UNCHANGED <<mstates, reactor, otherThanSess>>

\* P2pClientProtocol.connectionLost of a connection of session s, with
\* lostConnection raising.
SessConnectionError(s) ==
    /\ reactor = "running"
    /\ sess[s].p2p_client \in {"connected", "disconnecting"}
    /\ sess[s].error_deferred = "unfired"
    /\ sess' = triggerErrorDeferred(sess, s, "exception")
    /\ UNCHANGED <<mstates, reactor, otherThanSess>>

\* A phase after the escrow generation raises: the errback of the pipeline
\* is globalShutdown.
SessPhaseError(s) ==
    /\ reactor = "running"
    /\ sess[s].mixnet_deferreds = "commit"
    /\ sess' = globalShutdown([sess EXCEPT ![s].mixnet_deferreds = "shutdown"])
    /\ UNCHANGED <<mstates, reactor, otherThanSess>>

\* The connections of the P2P client are closed: _serverShutdown.
SessClientDown(s) ==
    /\ reactor = "running"
    /\ sess[s].p2p_client = "disconnecting"
    /\ sess' = [sess EXCEPT ![s].p2p_client = "closed",
                            ![s].p2p_server = "closing"]
    /\ UNCHANGED <<mstates, reactor, otherThanSess>>

\* The P2P server has stopped listening: _removeState, and realShutdown
\* when no state is left.
SessServerDown(s) ==
    /\ reactor = "running"
    /\ sess[s].p2p_server = "closing"
    /\ sess' = [sess EXCEPT ![s].p2p_server = "closed"]
    /\ mstates' = mstates \ {s}
    /\ reactor' = IF mstates' = {} THEN "stopping" ELSE reactor
    /\ UNCHANGED otherThanSess

\* realShutdown: the web server is down, _finishShutdown stops the reactor.
SessFinishShutdown ==
    /\ reactor = "stopping"
    /\ reactor' = "stopped"
    /\ UNCHANGED <<sess, mstates, otherThanSess>>

SessInit ==
    /\ CbIdle
    /\ DkgIdle
    /\ RecIdle
    /\ ShIdle
    /\ CmIdle
    /\ IpIdle
    /\ CpIdle
    /\ TxIdle
    /\ ValIdle
    /\ StIdle
    /\ BtIdle
    /\ RbIdle
    /\ MrIdle
    /\ SgIdle
    /\ sess = [s \in SessionIds |-> NewState]
    /\ mstates = SessionIds
    /\ reactor = "running"

SessNext ==
    \/ \E s \in SessionIds : SessStart(s)
    \/ \E s \in SessionIds, x \in SubDkgs : SessDkgResolved(s, x)
    \/ \E s \in SessionIds, x \in SubDkgs : SessDkgFailed(s, x)
    \/ \E s \in SessionIds : SessConnectionError(s)
    \/ \E s \in SessionIds : SessPhaseError(s)
    \/ \E s \in SessionIds : SessClientDown(s)
    \/ \E s \in SessionIds : SessServerDown(s)
    \/ SessFinishShutdown

\* The reactor runs every event that is pending.
SpecSess ==
    /\ SessInit
    /\ [][SessNext]_vars
    /\ WF_vars(SessNext)

-----------------------------------------------------------------------------
(* Properties of the sessions                                              *)

\* C7: a session in which a sub-DKG has failed has its error promise
\* fired; the escrow pipeline neither goes on nor waits with the error
\* promise unfired.
C7_FailedDkgFiresError ==
    \A s \in SessionIds :
        sess[s].failed # {} => sess[s].error_deferred = "fired"

\* C8: the step in which the error promise of a session fires cancels the
\* pipeline of that session and sets its shutdown flag, and leaves every
\* other session as it is.
C8_ErrorShutsDownThatSessionOnly ==
    [][\A s \in SessionIds :
          (sess[s].error_deferred = "unfired" /\ sess'[s].error_deferred = "fired")
             => /\ sess'[s].mixnet_deferreds = "shutdown"
                /\ sess'[s].shutdown_flag
                /\ \A o \in SessionIds \ {s} : sess'[o] = sess[o]]_vars

\* C24: escrows are generated one after another: the DKGs of escrow i+1 start
\* only when escrow i has been stored, escrows are stored in index order,
\* and an escrow is stored only when d, k, ki and kid have all resolved
\* successfully.
C24_EscrowsOneByOne ==
    \A s \in SessionIds :
        /\ sess[s].escrows = {i \in 0 .. EscrowAmount - 1 : i < Cardinality(sess[s].escrows)}
        /\ \A i \in 1 .. sess[s].index : i - 1 \in sess[s].escrows
        /\ \A i \in sess[s].escrows : \A x \in SubDkgs : <<x, i>> \notin sess[s].failed

\* The order alone: an escrow is started only after its predecessor has been
\* stored, and the stored escrows are an initial segment of the indices.
SessEscrowsInOrder ==
    \A s \in SessionIds :
        /\ sess[s].escrows = {i \in 0 .. EscrowAmount - 1 : i < Cardinality(sess[s].escrows)}
        /\ \A i \in 1 .. sess[s].index : i - 1 \in sess[s].escrows

-----------------------------------------------------------------------------
(* Shamir recombination (shamir.py) over the field of order DkgOrder.      *)
(* A list of the code is a sequence; index i of the code is i + 1 here.    *)

\* FieldElement.__init__: int(v) % order
FieldElement(v) == ((v % DkgOrder) + DkgOrder) % DkgOrder

\* smpcbase.invert, reduced into the field
invert(a) == CHOOSE x \in 1..(DkgOrder - 1) : (a * x) % DkgOrder = 1

Reverse(s) == [i \in 1..Len(s) |-> s[Len(s) + 1 - i]]

\* share(): the shares (x + 1, f(x + 1)) of the polynomial with the
\* constant term s and t equal coefficients drawn once
share(s, coeff, n, t) ==
    [x \in 1..n |-> <<x, FieldElement(SumOver([k \in 0..t |->
                            IF k = 0 THEN s ELSE coeff * Pow(x, k)], 0..t))>>]

\* _construct_equation_system: row i is [x^0 .. x^(n-t-1) | -s_i x^0 ..
\* -s_i x^(t-1)] and the right-hand side s_i x^t, with x = i + 1
construct_equation_system(shares, t) ==
    LET n == Len(shares)
    IN  [i \in 1..n |->
           [j \in 1..(n + 1) |->
              IF j <= n - t THEN FieldElement(Pow(i, j - 1))
              ELSE IF j <= n THEN FieldElement(0 - shares[i][2] * Pow(i, j - (n - t) - 1))
              ELSE FieldElement(shares[i][2] * Pow(i, t))]]

\* Ab[k] = Ab[k] - Ab[k][i] * Ab[i] for the rows k of set K
Eliminate(Ab, i, K) ==
    [k \in DOMAIN Ab |->
        IF k \in K
        THEN [j \in DOMAIN Ab[k] |-> FieldElement(Ab[k][j] - Ab[k][i] * Ab[i][j])]
        ELSE Ab[k]]

\* _solve_equation_system, the first loop: pivot (the first row with the
\* largest entry above 0), swap, scale, eliminate below.  <<>> is None.
RECURSIVE ForwardElimination(_, _)
ForwardElimination(Ab, i) ==
    LET n == Len(Ab)
        cand == {k \in i..n : Ab[k][i] > 0}
    IN  IF i > n THEN Ab
        ELSE IF cand = {} THEN <<>>
        ELSE LET p == CHOOSE v \in {Ab[k][i] : k \in cand} :
                         \A k \in cand : Ab[k][i] <= v
                 p_ind == CHOOSE k \in cand :
                             Ab[k][i] = p /\ \A l \in cand : Ab[l][i] = p => k <= l
                 swapped == [Ab EXCEPT ![i] = Ab[p_ind], ![p_ind] = Ab[i]]
                 scaled == [swapped EXCEPT ![i] =
                              [j \in DOMAIN @ |-> FieldElement(@[j] * invert(p))]]
             IN  ForwardElimination(Eliminate(scaled, i, (i + 1)..n), i + 1)

\* the second loop: eliminate above, from the last row up
RECURSIVE BackSubstitution(_, _)
BackSubstitution(Ab, i) ==
    IF i < 1 THEN Ab ELSE BackSubstitution(Eliminate(Ab, i, 1..(i - 1)), i - 1)

solve_equation_system(matrix) ==
    LET Ab == ForwardElimination(matrix, 1)
    IN  IF Ab = <<>> THEN <<>>
        ELSE LET R == BackSubstitution(Ab, Len(Ab))
             IN  [i \in 1..Len(R) |-> R[i][Len(R) + 1]]

\* _split_factors: Q is the first n - t coefficients, E the last t and a 1
split_factors(coeffs, t) ==
    LET n == Len(coeffs)
    IN  [Q |-> SubSeq(coeffs, 1, n - t),
         E |-> (IF t > 0 THEN SubSeq(coeffs, n - t + 1, n) ELSE <<>>) \o <<1>>]

RECURSIVE StripLeading(_, _)
\* while len(l) > keep and l[0] == 0: l = l[1:]
StripLeading(l, keep) ==
    IF Len(l) > keep /\ l[1] = 0 THEN StripLeading(Tail(l), keep) ELSE l

RECURSIVE PolyDivision(_, _, _)
\* the division loop of _get_P on the reversed lists; error is the ValueError
PolyDivision(Qt, Et, Pt) ==
    IF Len(Qt) < Len(Et) THEN [Pt |-> Pt, Qt |-> Qt, error |-> FALSE]
    ELSE LET c == FieldElement(Qt[1] * invert(Et[1]))
             Q2 == [i \in DOMAIN Qt |->
                      IF i <= Len(Et) THEN FieldElement(Qt[i] - c * Et[i]) ELSE Qt[i]]
         IN  IF Q2[1] = 0 THEN PolyDivision(Tail(Q2), Et, Append(Pt, c))
             ELSE [Pt |-> Pt, Qt |-> Q2, error |-> TRUE]

\* _get_P: P and the remainder of Q / E; t is the threshold of the caller
get_P(Q, E, t) ==
    LET d == PolyDivision(StripLeading(Reverse(Q), 1), Reverse(E), <<>>)
    IN  [P |-> Reverse(StripLeading(d.Pt, t + 1)),
         remainder |-> StripLeading(Reverse(d.Qt), 0),
         error |-> d.error]

RECURSIVE FirstSolvable(_, _)
\* the loop of _berlekamp_welch: the largest th <= t whose system has a
\* solution; -1 when there is none
FirstSolvable(shares, th) ==
    IF th < 0 THEN -1
    ELSE IF solve_equation_system(construct_equation_system(shares, th)) # <<>> THEN th
    ELSE FirstSolvable(shares, th - 1)

\* _berlekamp_welch: kind "value" carries the secret, "None" is the return
\* of None, the other kinds are the exceptions that leave the function
berlekamp_welch(shares, t) ==
    LET th == FirstSolvable(shares, t)
    IN  IF th < 0 THEN [kind |-> "ValueError", value |-> 0]
        ELSE LET x == solve_equation_system(construct_equation_system(shares, th))
                 QE == split_factors(x, th)
                 PR == get_P(QE.Q, QE.E, t)
             IN  IF PR.error THEN [kind |-> "ValueError", value |-> 0]
                 ELSE IF Len(PR.remainder) > 0 THEN [kind |-> "None", value |-> 0]
                 ELSE IF PR.P = <<>> THEN [kind |-> "IndexError", value |-> 0]
                 ELSE [kind |-> "value", value |-> PR.P[1] % DkgOrder]

\* recombine(robust=True): a share is <<v>>, a missing one (None) is <<>>
\* and counts as 0; the shares are kept by rank, so they are sorted already
recombine(unf_shares, t) ==
    berlekamp_welch([i \in DOMAIN unf_shares |->
        <<unf_shares[i][1], IF unf_shares[i][2] = <<>> THEN 0 ELSE unf_shares[i][2][1]>>], t)

-----------------------------------------------------------------------------
(* Decoupled recombination: RecombinationSmpcValue, one value, all peers.  *)

RecSizes == {3, 4}
RecSecrets == {0, 3}
RecCoeffs == {0, 2}
RecFaults == {"honest", "silent", "wrong", "duplicate"}

RecRanks == Ranks(recN)
RecT == MixpeerThreshold(recN)

\* The last rank is the faulty peer unless the run is honest.
RecHonest(p) == recFault = "honest" \/ p # recN - 1

\* the share of rank p in the sharing of the secret that is recombined
SecretShareOf(p) == share(recSecret, recCoeff, recN, RecT)[p + 1][2]

\* RecombinationSmpcValue.__init__
NewRec ==
    [secret_share |-> <<>>,
     received_shares |-> [i \in RecRanks |-> <<>>],
     called |-> FALSE,
     public_value |-> [kind |-> "unset", value |-> 0]]

\* RecComputePublicValue, the callback of _public_value_deferred; an exception
\* of recombine leaves _public_value unset and fails the deferred
RecComputePublicValue(v) ==
    LET r == recombine([i \in 1..recN |-> <<i, v.received_shares[i - 1]>>], RecT)
    IN  [v EXCEPT !.public_value = r]

\* RecombinationSmpcValue.receivedPublicValue
RecReceivedPublicValue(v, peer_rank, value) ==
    IF v.called \/ v.received_shares[peer_rank] # <<>> THEN v
    ELSE LET w == [v EXCEPT !.received_shares[peer_rank] = <<value>>]
         IN  IF \A i \in RecRanks : w.received_shares[i] # <<>>
             THEN RecComputePublicValue([w EXCEPT !.called = TRUE])
             ELSE w

\* BroadcastTransaction of the values vs, in this order, to the peers that
\* run the code (what a faulty peer is sent is not followed)
RecBroadcast(p, vs) ==
    [c \in DOMAIN recChan |->
        IF c[1] = p /\ c[2] # p THEN recChan[c] \o vs ELSE recChan[c]]

\* initialize -> distributeShares -> sendPublicValues.  No step of the
\* chain starts the collecting timeout (startCollectingTimeout has no
\* caller), so the model has no timeout action.
RecInitialize(p) ==
    /\ RecHonest(p)
    /\ rec[p].secret_share = <<>>
    /\ recChan' = RecBroadcast(p, <<SecretShareOf(p)>>)
    /\ rec' = [rec EXCEPT ![p] = RecReceivedPublicValue(
                    [@ EXCEPT !.secret_share = <<SecretShareOf(p)>>], p, SecretShareOf(p))]
    /\ UNCHANGED <<recN, recSecret, recCoeff, recFault>>
    /\ UNCHANGED otherThanRec

\* mpcp.processRequest of the head of the channel from q
RecReceive(p, q) ==
    /\ <<q, p>> \in DOMAIN recChan
    /\ recChan[<<q, p>>] # <<>>
    /\ rec' = [rec EXCEPT ![p] = RecReceivedPublicValue(@, q, Head(recChan[<<q, p>>]))]
    /\ recChan' = [recChan EXCEPT ![<<q, p>>] = Tail(@)]
    /\ UNCHANGED <<recN, recSecret, recCoeff, recFault>>
    /\ UNCHANGED otherThanRec

\* The faulty peer sends a share that is off by one, or its share and then
\* a second, different value for the same slot.
RecFaultySend ==
    LET f == recN - 1
        s == SecretShareOf(f)
    IN  /\ recFault \in {"wrong", "duplicate"}
        /\ rec[f].secret_share = <<>>
        /\ rec' = [rec EXCEPT ![f].secret_share = <<s>>]
        /\ recChan' = RecBroadcast(f, IF recFault = "wrong" THEN <<FieldElement(s + 1)>>
                                      ELSE <<s, FieldElement(s + 1)>>)
        /\ UNCHANGED <<recN, recSecret, recCoeff, recFault>>
        /\ UNCHANGED otherThanRec

RecInit ==
    /\ CbIdle
    /\ DkgIdle
    /\ SessIdle
    /\ ShIdle
    /\ CmIdle
    /\ IpIdle
    /\ CpIdle
    /\ TxIdle
    /\ ValIdle
    /\ StIdle
    /\ BtIdle
    /\ RbIdle
    /\ MrIdle
    /\ SgIdle
    /\ recN \in RecSizes
    /\ recSecret \in RecSecrets
    /\ recCoeff \in RecCoeffs
    /\ recFault \in RecFaults
    /\ rec = [p \in RecRanks |-> NewRec]
    /\ recChan = [c \in {d \in RecRanks \X RecRanks : d[1] # d[2] /\ RecHonest(d[2])} |-> <<>>]

RecNext ==
    \/ \E p \in RecRanks : RecInitialize(p)
    \/ \E p, q \in RecRanks : RecReceive(p, q)
    \/ RecFaultySend

\* The reactor runs every callback and delivers every frame that is due.
SpecRec == RecInit /\ [][RecNext]_vars /\ WF_vars(RecNext)

-----------------------------------------------------------------------------
(* Properties of the recombination.                                        *)

\* Nothing is left to run: every peer has sent what it sends and every
\* channel is empty.
RecQuiet ==
    /\ \A p \in RecRanks : (RecHonest(p) \/ recFault \in {"wrong", "duplicate"}) =>
                                rec[p].secret_share # <<>>
    /\ \A c \in DOMAIN recChan : recChan[c] = <<>>

\* C14: a Rec instance resolves its public value once all n shares have
\* arrived and otherwise when the collecting timeout expires, so a peer
\* that never sends cannot keep it pending for ever: when nothing is left
\* to run, every peer that runs the code has its _public_value_deferred
\* fired.
C14_RecCompletes ==
    RecQuiet => \A p \in RecRanks : RecHonest(p) => rec[p].called

\* the number of share positions that differ from the sharing of the secret
Corrupted(v) == Cardinality({i \in RecRanks : v.received_shares[i] # <<SecretShareOf(i)>>})

\* C15: robust recombination returns the true secret whenever at most t of
\* the n positions are corrupted or missing, for every n with t = n div 3
\* (n = 3, t = 1 included).
C15_RobustRecombination ==
    \A p \in RecRanks :
        (RecHonest(p) /\ rec[p].called /\ Corrupted(rec[p]) <= RecT) =>
            rec[p].public_value = [kind |-> "value", value |-> recSecret]

\* The Rec part of C16: a slot of _received_shares that holds a value keeps
\* it, and a resolved public value never changes.
RecKeepsFirstShare ==
    [][\A p \in RecRanks : RecHonest(p) =>
          /\ \A i \in RecRanks :
                rec[p].received_shares[i] # <<>> =>
                    rec'[p].received_shares[i] = rec[p].received_shares[i]
          /\ rec[p].called => rec'[p].public_value = rec[p].public_value]_vars

\* A peer has read both values of the faulty peer and holds the first.
RecDuplicateRead ==
    /\ recFault = "duplicate"
    /\ rec[recN - 1].secret_share # <<>>
    /\ \E p \in RecRanks :
          /\ RecHonest(p)
          /\ recChan[<<recN - 1, p>>] = <<>>
          /\ rec[p].received_shares[recN - 1] = <<SecretShareOf(recN - 1)>>

-----------------------------------------------------------------------------
(* Shuffling: ShufflingProtocol.shuffling_phase and ShufflingState.        *)

ShSizes == {3}
ShUsers == {1, 2}
HashModulus == 32        \* stands for hash_modulus = 2^256
HashOrder == 67          \* stands for hash_order = 2^265 - 49
MaxByzAddr == 2

ShRanks == Ranks(shN)
ShHonest(p) == p \in ShRanks \ shByz

\* The output address of user u from which the layers of the ranks below
\* l are removed; user 0 is an entry that no user handed in.
Entry(u, l) == [user |-> u, layer |-> l]

\* the entries of all users at layer l, in the order of the escrows
EntriesAt(l) == [i \in 1..Cardinality(ShUsers) |-> Entry(SetToSeq(ShUsers)[i], l)]

\* InputPeerState.getEncryptedOutputAddresses
EncryptedOutputAddresses == EntriesAt(0)

\* int(hashlib.sha256(entry).hexdigest(), 16): a number below hash_modulus;
\* no two lists of the model that differ as multisets have the same sum
Sha256(e) == e.user + 3 * e.layer

RECURSIVE HashSum(_)
\* the loop of computeReferenceChecksum, a residue modulo hash_order
HashSum(list) ==
    IF list = <<>> THEN 0
    ELSE (HashSum(SubSeq(list, 1, Len(list) - 1)) + Sha256(list[Len(list)])) % HashOrder

\* checksumToString: the 64 hexadecimal digits of checksum % hash_modulus
checksumToString(checksum) == checksum % HashModulus

computeReferenceChecksum(layered_encryption) == checksumToString(HashSum(layered_encryption))

\* What the Rec of recombineChecksum reconstructs for a layer when every
\* share is right: the sum of the hashes the users shared, which are those
\* of their entries after the layer is removed, and for a layer of shShift
\* a user shared its hash plus hash_modulus.
HashShareChecksum(layer) ==
    (HashSum(EntriesAt(layer + 1)) + IF layer \in shShift THEN HashModulus ELSE 0) % HashOrder

\* compareChecksums: FALSE is the ValueError
compareChecksums(checksum, reference_checksum) == checksum = reference_checksum

EntryBefore(a, b) == a.user < b.user \/ (a.user = b.user /\ a.layer <= b.layer)

ShPerms(n) == {f \in [1..n -> 1..n] : \A i, j \in 1..n : i # j => f[i] # f[j]}

\* shuffleAddresses with the permutation random.shuffle drew
shuffleAddresses(addresses, perm) == [i \in 1..Len(addresses) |-> addresses[perm[i]]]

orderLexicographicallyUnsorted(list) == list

\* orderLexicographically: sorted(list)
orderLexicographically(list) ==
    LET sorted == {shuffleAddresses(list, f) : f \in ShPerms(Len(list))}
    IN  CHOOSE s \in sorted : \A i \in 1..(Len(s) - 1) : EntryBefore(s[i], s[i + 1])

\* computeFinalPermutation: prng.shuffle of a generator seeded with the
\* checksum, a permutation fixed by the seed and the length of the list
computeFinalPermutation(output_addresses, checksum) ==
    LET n == Len(output_addresses)
    IN  [i \in 1..n |-> output_addresses[((i - 1 + checksum) % n) + 1]]

\* decryptAddressLayer with the key of rank p: an entry that does not carry
\* the layer of p decrypts to garbage
decryptAddressLayer(addresses, p) ==
    [i \in 1..Len(addresses) |->
        IF addresses[i].layer = p /\ addresses[i].user # 0
        THEN Entry(addresses[i].user, p + 1) ELSE Entry(0, p + 1)]

\* ShufflingState.__init__ with the state of the callback chain of
\* _initialize_deferred (queue: the callbacks still to run, cur: the ADDR
\* whose check the chain waits for, failed: the chain holds a Failure), the
\* lists this peer broadcast (sent), escrow['output'] of the assigned
\* escrows (output), and the number of callbacks that found their
\* _addr_deferreds[rank] called already (dup).  out carries what one
\* handler run broadcasts.
NewShuffle ==
    [started |-> FALSE, queue |-> <<>>, cur |-> <<>>, failed |-> FALSE,
     addr_called |-> [r \in ShRanks |-> FALSE],
     checks |-> [r \in ShRanks |-> "none"],
     checked |-> [r \in ShRanks |-> <<>>],
     sent |-> <<>>, output |-> <<>>, dup |-> 0, out |-> <<>>]

Addr(addresses, rank) == [addresses |-> addresses, rank |-> rank]

RECURSIVE FireAddrDeferredsAgain(_)
FireAddrDeferredsAgain(v) ==
    IF ~v.started \/ v.failed \/ v.cur # <<>> \/ v.queue = <<>> THEN v
    ELSE LET it == Head(v.queue)
         IN  [v EXCEPT !.queue = Tail(@), !.addr_called[it.rank] = TRUE, !.cur = <<it>>,
                       !.checks[it.rank] = "pending", !.checked[it.rank] = it.addresses]

RECURSIVE FireAddrDeferreds(_)
\* The callbacks ShufflingState.receivedAddrBroadcast added to
\* _initialize_deferred, run as far as the chain goes: _fire_addr_deferred
\* fires _addr_deferreds[rank] once, whose callback receivedAddrBroadcast
\* starts checksumRoutine and returns a Deferred that pauses the chain.
FireAddrDeferreds(v) ==
    IF ~v.started \/ v.failed \/ v.cur # <<>> \/ v.queue = <<>> THEN v
    ELSE LET it == Head(v.queue)
             w == [v EXCEPT !.queue = Tail(@)]
         IN  IF v.addr_called[it.rank]
             THEN FireAddrDeferreds([w EXCEPT !.dup = @ + 1])
             ELSE [w EXCEPT !.addr_called[it.rank] = TRUE, !.cur = <<it>>,
                            !.checks[it.rank] = "pending",
                            !.checked[it.rank] = it.addresses]

\* decryptionMixnet, broadcastShufflingResult and _fire_shuffle_broadcast
ShuffleAndBroadcast(v, p, addresses, perm) ==
    LET shuffled == shuffleAddresses(decryptAddressLayer(addresses, p), perm)
    IN  [v EXCEPT !.sent = Append(@, shuffled), !.out = <<shuffled>>,
                  !.queue = Append(@, Addr(shuffled, p))]

\* decideAction
decideAction(v, p, it, checksum, perm) ==
    IF it.rank = p - 1 THEN ShuffleAndBroadcast(v, p, it.addresses, perm)
    ELSE IF it.rank = shN - 1
    THEN [v EXCEPT !.output =
            computeFinalPermutation(orderLexicographically(it.addresses), checksum)]
    ELSE v

\* BroadcastTransaction: one frame to every peer that runs the code
ShBroadcast(c, p, out) ==
    [d \in DOMAIN c |-> IF d[1] = p THEN c[d] \o [i \in 1..Len(out) |-> Addr(out[i], p)]
                        ELSE c[d]]

ShInstall(p, v) ==
    /\ sh' = [sh EXCEPT ![p] = [v EXCEPT !.out = <<>>]]
    /\ shChan' = ShBroadcast(shChan, p, v.out)

\* shuffling_phase: the callbacks are set, initialized() fires, and rank 0
\* starts the chain from the encrypted output addresses
ShStart(p) ==
    /\ ShHonest(p)
    /\ ~sh[p].started
    /\ \E perm \in ShPerms(Cardinality(ShUsers)) :
          LET v == [sh[p] EXCEPT !.started = TRUE]
              w == IF p = 0 THEN ShuffleAndBroadcast(v, p, EncryptedOutputAddresses, perm)
                   ELSE v
          IN  ShInstall(p, FireAddrDeferreds(w))
    /\ UNCHANGED <<shN, shByz, shShift, shByzAddr, otherThanSh>>

\* addr.processRequest of the head of the connection from q
ShReceiveAddr(p, q) ==
    /\ <<q, p>> \in DOMAIN shChan
    /\ shChan[<<q, p>>] # <<>>
    /\ LET m == Head(shChan[<<q, p>>])
           v == IF Len(m.addresses) < Cardinality(ShUsers) THEN sh[p]
                ELSE FireAddrDeferreds([sh[p] EXCEPT !.queue = Append(@, m)])
       IN  /\ sh' = [sh EXCEPT ![p] = v]
           /\ shChan' = [shChan EXCEPT ![<<q, p>>] = Tail(@)]
    /\ UNCHANGED <<shN, shByz, shShift, shByzAddr, otherThanSh>>

\* The Rec of the layer resolves at p, which needs the share of every
\* peer: checksumToString, storeChecksum, compareChecksums, decideAction,
\* and then the callbacks that waited behind this one.
ShChecksum(p) ==
    /\ ShHonest(p)
    /\ sh[p].cur # <<>>
    /\ LET it == sh[p].cur[1]
           checksum == checksumToString(HashShareChecksum(it.rank))
       IN  /\ \A q \in ShRanks : ShHonest(q) => sh[q].checks[it.rank] # "none"
           /\ \E perm \in ShPerms(Cardinality(ShUsers)) :
                 IF compareChecksums(checksum, computeReferenceChecksum(it.addresses))
                 THEN ShInstall(p, FireAddrDeferreds(
                         decideAction([sh[p] EXCEPT !.cur = <<>>, !.checks[it.rank] = "ok"],
                                      p, it, checksum, perm)))
                 ELSE ShInstall(p, [sh[p] EXCEPT !.cur = <<>>, !.failed = TRUE,
                                                 !.checks[it.rank] = "failed"])
    /\ UNCHANGED <<shN, shByz, shShift, shByzAddr, otherThanSh>>

\* A Byzantine peer sends shares that make the Rec of p reconstruct None
\* or a number that is no checksum of a list: compareChecksums raises.
ShPoison(p) ==
    /\ shByz # {}
    /\ ShHonest(p)
    /\ sh[p].cur # <<>>
    /\ sh' = [sh EXCEPT ![p] = [@ EXCEPT !.cur = <<>>, !.failed = TRUE,
                                        !.checks[sh[p].cur[1].rank] = "failed"]]
    /\ UNCHANGED <<shN, shByz, shShift, shChan, shByzAddr, otherThanSh>>

\* The lists a Byzantine peer b can put under rank r: it knows the entries
\* of a layer once it can remove that layer itself or has seen the
\* broadcast of the peer that did, and then sends them in any order or with
\* an entry replaced; otherwise it sends entries of its own.
ByzLists(b, r) ==
    LET knows == IF r = b THEN (b = 0 \/ sh[b - 1].sent # <<>>) ELSE sh[r].sent # <<>>
        right == EntriesAt(r + 1)
    IN  IF knows
        THEN {shuffleAddresses(right, f) : f \in ShPerms(Len(right))}
             \cup {[right EXCEPT ![1] = Entry(0, r + 1)]}
        ELSE {[i \in 1..Len(right) |-> Entry(0, r + 1)]}

\* The Byzantine peer writes an ADDR frame to p under any rank: the
\* signature of a frame is checked but a frame that fails is not dropped.
ShByzAddr(b, p) ==
    /\ b \in shByz
    /\ ShHonest(p)
    /\ shByzAddr < MaxByzAddr
    /\ \E r \in ShRanks : \E list \in ByzLists(b, r) :
          shChan' = [shChan EXCEPT ![<<b, p>>] = Append(@, Addr(list, r))]
    /\ shByzAddr' = shByzAddr + 1
    /\ UNCHANGED <<shN, shByz, shShift, sh, otherThanSh>>

ShInit ==
    /\ CbIdle
    /\ DkgIdle
    /\ SessIdle
    /\ RecIdle
    /\ CmIdle
    /\ IpIdle
    /\ CpIdle
    /\ TxIdle
    /\ ValIdle
    /\ StIdle
    /\ BtIdle
    /\ RbIdle
    /\ MrIdle
    /\ SgIdle
    /\ shN \in ShSizes
    /\ shByz \in {{}} \cup {{b} : b \in ShRanks}
    /\ shShift \in {{}} \cup {{l} : l \in ShRanks}
    /\ shByz = {} \/ shShift = {}
    /\ sh = [p \in ShRanks |-> NewShuffle]
    /\ shChan = [c \in {d \in ShRanks \X ShRanks : d[1] # d[2] /\ d[2] \notin shByz} |-> <<>>]
    /\ shByzAddr = 0

ShNext ==
    \/ \E p \in ShRanks : ShStart(p)
    \/ \E p, q \in ShRanks : ShReceiveAddr(p, q)
    \/ \E p \in ShRanks : ShChecksum(p)
    \/ \E p \in ShRanks : ShPoison(p)
    \/ \E b, p \in ShRanks : ShByzAddr(b, p)

SpecSh == ShInit /\ [][ShNext]_vars

-----------------------------------------------------------------------------
(* Properties of the shuffling.                                            *)

\* C17: a peer broadcasts its ADDR at most once, and a peer of rank r > 0
\* only after it has received the ADDR of rank r - 1 and its checksum
\* comparison for layer r - 1 has succeeded; so the peers that follow the
\* protocol broadcast in the order of their ranks.
C17_ShuffleChainOrder ==
    \A r \in ShRanks : ShHonest(r) =>
        /\ Len(sh[r].sent) <= 1
        /\ (r > 0 /\ sh[r].sent # <<>>) =>
              /\ sh[r].addr_called[r - 1]
              /\ sh[r].checks[r - 1] = "ok"
              /\ \A q \in ShRanks : (ShHonest(q) /\ q < r) => sh[q].sent # <<>>

\* Peer 1 has broadcast once, and a second ADDR under rank 0, written
\* by the Byzantine peer, has reached it and run its callback.
C17_Witness ==
    /\ shByz = {2}
    /\ Len(sh[1].sent) = 1
    /\ sh[1].dup > 0
    /\ sh[1].queue = <<>> /\ sh[1].cur = <<>> /\ ~sh[1].failed

\* C18: if the checksum reconstructed from the hash shares of a layer
\* differs, as a residue modulo hash_order, from the sum of the hashes of
\* the received list, the peer fails hard: it does not broadcast an ADDR
\* of its own for that list and does not assign the output addresses.
C18_MismatchFailsHard ==
    \A p \in ShRanks : ShHonest(p) =>
        \A l \in ShRanks :
            (/\ sh[p].checks[l] \in {"ok", "failed"}
             /\ HashShareChecksum(l) # HashSum(sh[p].checked[l])) =>
                /\ sh[p].failed
                /\ l = p - 1 => sh[p].sent = <<>>
                /\ l = shN - 1 => sh[p].output = <<>>

-----------------------------------------------------------------------------
(* Input-peer gathering: CommitmentState of one mixing peer, the timer of  *)
(* startPeerGathering, the local registrations of the web server and the   *)
(* HELO requests of the other mixing peers.                                *)

CmPeerBounds == 1 .. 3
MaxRegistrations == 4
OwnEscrows == 1

\* CommitmentState.__init__ followed by the commitment phase definition:
\* startPeerGathering has armed the timer and the threshold deferred carries
\* _block_webserver and _fire_freezing_deferred.
NewCommitmentState ==
    [number_peers      |-> 0,
     allow_min_peers   |-> FALSE,
     threshold_reached |-> "pending",
     timeout_deferred  |-> "pending",
     web_blocked       |-> FALSE,
     input_peers_frozen |-> FALSE,
     free_slots        |-> OwnEscrows,
     address_requests  |-> 0,
     errors            |-> {}]

increasePeerCount(c) == [c EXCEPT !.number_peers = @ + 1]

\* _threshold_reached.callback(None): the first call runs _block_webserver and
\* _fire_freezing_deferred (whose callback determineAssignedEscrows freezes
\* the input peers); a second call raises AlreadyCalledError.
thresholdReachedCallback(c) ==
    IF c.threshold_reached = "pending"
    THEN [c EXCEPT !.threshold_reached = "called",
                   !.web_blocked = TRUE,
                   !.input_peers_frozen = TRUE]
    ELSE [c EXCEPT !.errors = @ \cup {"AlreadyCalledError"}]

checkInputPeerThreshold(c) ==
    IF \/ (c.allow_min_peers /\ c.number_peers >= cmMin)
       \/ c.number_peers = cmMax
    THEN LET c1 == IF ~c.allow_min_peers /\ c.timeout_deferred = "pending"
                   THEN [c EXCEPT !.timeout_deferred = "cancelled"]
                   ELSE c
         IN  thresholdReachedCallback(c1)
    ELSE c

\* timeoutReached reads self._threshold_deferred, an attribute the class never
\* sets (the deferred is _threshold_reached): the call raises AttributeError
\* inside the timer and the threshold deferred stays as it was.
timeoutReached(c) ==
    LET c1 == [c EXCEPT !.allow_min_peers = TRUE, !.timeout_deferred = "fired"]
    IN  IF c1.number_peers >= cmMin
        THEN [c1 EXCEPT !.errors = @ \cup {"AttributeError"}]
        ELSE c1

\* P2pEndpoints.request_helo, a local registration: the peer is counted at
\* once.  With a free escrow (addInputPeer gives one) the address deferred is
\* sent down its errback into request_new_addresses, which returns a deferred
\* that nothing fires; without one, request_helo_callback runs on None and
\* raises TypeError.  On neither path is a HELO broadcast or the threshold
\* checked.
request_helo(c) ==
    LET c1 == increasePeerCount(c)
    IN  IF c.free_slots > 0
        THEN [c1 EXCEPT !.free_slots = @ - 1, !.address_requests = @ + 1]
        ELSE [c1 EXCEPT !.errors = @ \cup {"TypeError"}]

CmRequestHelo ==
    /\ cm.number_peers < MaxRegistrations
    /\ cm' = request_helo(cm)
    /\ UNCHANGED <<cmMin, cmMax>>
    /\ UNCHANGED otherThanCm

\* helo.processRequest: a HELO of another mixing peer.
CmProcessHelo ==
    /\ cm.number_peers < MaxRegistrations
    /\ cm' = checkInputPeerThreshold(increasePeerCount(cm))
    /\ UNCHANGED <<cmMin, cmMax>>
    /\ UNCHANGED otherThanCm

\* The reactor runs the deferLater of startPeerGathering.
CmTimeout ==
    /\ cm.timeout_deferred = "pending"
    /\ cm' = timeoutReached(cm)
    /\ UNCHANGED <<cmMin, cmMax>>
    /\ UNCHANGED otherThanCm

CmInit ==
    /\ CbIdle
    /\ DkgIdle
    /\ SessIdle
    /\ RecIdle
    /\ ShIdle
    /\ IpIdle
    /\ CpIdle
    /\ TxIdle
    /\ ValIdle
    /\ StIdle
    /\ BtIdle
    /\ RbIdle
    /\ MrIdle
    /\ SgIdle
    /\ cmMin \in CmPeerBounds
    /\ cmMax \in CmPeerBounds
    /\ cmMin <= cmMax
    /\ cm = NewCommitmentState

CmNext ==
    \/ CmRequestHelo
    \/ CmProcessHelo
    \/ CmTimeout

\* The reactor runs a due timer; nobody is obliged to register.
SpecCm ==
    /\ CmInit
    /\ [][CmNext]_vars
    /\ WF_vars(CmTimeout)

-----------------------------------------------------------------------------
(* Properties of the input-peer gathering.                                 *)

CmWindowElapsed == cm.timeout_deferred = "fired"

\* C20: once the peer count has reached max, or the commitment window has
\* elapsed with at least min peers, the input-peer set is eventually frozen,
\* whatever the interleaving of local registrations, remote HELOs and the
\* timer, and without a further registration after the window has elapsed.
C20_EventuallyFrozen ==
    [](( \/ cm.number_peers >= cmMax
         \/ (CmWindowElapsed /\ cm.number_peers >= cmMin))
        => <>cm.input_peers_frozen)

\* C23: the input-peer threshold promise fires at most once: no interleaving
\* of local registrations, remote HELOs and the window timer attempts a
\* second callback on it.
C23_ThresholdFiresOnce == "AlreadyCalledError" \notin cm.errors

-----------------------------------------------------------------------------
(* Input-peer sets of one mixnet of three mixing peers.  The peers of      *)
(* IpPeers run the code below; the peer of IpAnnouncers stands for a       *)
(* mixing peer whose registrations do reach the others (it broadcasts one  *)
(* HELO per registration, the same frame to every peer).                   *)

IpRanks == {0, 1, 2}
IpAnnouncers == {2}
IpPeers == IpRanks \ IpAnnouncers
IpMixnetSize == Cardinality(IpRanks)
AnnouncedEscrows == {a + IpMixnetSize * k : a \in IpAnnouncers, k \in {0, 1}}

NewInputPeerState ==
    [commit   |-> NewCommitmentState,
     flagged  |-> {},
     assigned |-> <<>>]

\* InputPeerState.addInputPeer / _getLowestFreeSlot: the free slots of a peer
\* are rank, rank + n, rank + 2n, ...
LowestFreeSlot(p, c) == p + IpMixnetSize * (OwnEscrows - c.free_slots)

\* determineAssignedEscrows, the callback of the freezing deferred: it runs
\* when the step has fired the threshold deferred for the first time and
\* keeps the flagged escrows in the order of _escrow_addresses.
determineAssignedEscrows(old, c, flagged) ==
    IF ~old.commit.input_peers_frozen /\ c.input_peers_frozen
    THEN SetToSeq(flagged)
    ELSE old.assigned

\* A local registration at p: addInputPeer flags the peer's lowest free
\* escrow, request_helo counts it; no HELO leaves the peer.
IpRequestHelo(p) ==
    /\ ip[p].commit.number_peers < MaxRegistrations
    /\ LET c == request_helo(ip[p].commit)
           f == IF ip[p].commit.free_slots > 0
                THEN ip[p].flagged \cup {LowestFreeSlot(p, ip[p].commit)}
                ELSE ip[p].flagged
       IN  ip' = [ip EXCEPT ![p] = [commit   |-> c,
                                    flagged  |-> f,
                                    assigned |-> determineAssignedEscrows(ip[p], c, f)]]
    /\ UNCHANGED <<ipChan, ipAnnounced>>
    /\ UNCHANGED cmVars
    /\ UNCHANGED otherThanIp

\* The announcing peer registers an input peer for one of its escrows and
\* broadcasts the HELO.
IpAnnounce(e) ==
    /\ e \notin ipAnnounced
    /\ ipAnnounced' = ipAnnounced \cup {e}
    /\ ipChan' = [p \in IpPeers |-> Append(ipChan[p], e)]
    /\ UNCHANGED ip
    /\ UNCHANGED cmVars
    /\ UNCHANGED otherThanIp

\* helo.processRequest at p: flagInputPeer, increasePeerCount,
\* checkInputPeerThreshold.
IpProcessHelo(p) ==
    /\ ipChan[p] # <<>>
    /\ LET e == Head(ipChan[p])
           f == ip[p].flagged \cup {e}
           c == checkInputPeerThreshold(increasePeerCount(ip[p].commit))
       IN  ip' = [ip EXCEPT ![p] = [commit   |-> c,
                                    flagged  |-> f,
                                    assigned |-> determineAssignedEscrows(ip[p], c, f)]]
    /\ ipChan' = [ipChan EXCEPT ![p] = Tail(@)]
    /\ UNCHANGED ipAnnounced
    /\ UNCHANGED cmVars
    /\ UNCHANGED otherThanIp

\* The window timer of p.
IpTimeout(p) ==
    /\ ip[p].commit.timeout_deferred = "pending"
    /\ ip' = [ip EXCEPT ![p].commit = timeoutReached(@)]
    /\ UNCHANGED <<ipChan, ipAnnounced>>
    /\ UNCHANGED cmVars
    /\ UNCHANGED otherThanIp

IpInit ==
    /\ CbIdle
    /\ DkgIdle
    /\ SessIdle
    /\ RecIdle
    /\ ShIdle
    /\ CpIdle
    /\ TxIdle
    /\ ValIdle
    /\ StIdle
    /\ BtIdle
    /\ RbIdle
    /\ MrIdle
    /\ SgIdle
    /\ cm = <<>>
    /\ cmMin \in CmPeerBounds
    /\ cmMax \in CmPeerBounds
    /\ cmMin <= cmMax
    /\ ip = [p \in IpPeers |-> NewInputPeerState]
    /\ ipChan = [p \in IpPeers |-> <<>>]
    /\ ipAnnounced = {}

IpNext ==
    \/ \E p \in IpPeers : IpRequestHelo(p)
    \/ \E e \in AnnouncedEscrows : IpAnnounce(e)
    \/ \E p \in IpPeers : IpProcessHelo(p)
    \/ \E p \in IpPeers : IpTimeout(p)

SpecIp == IpInit /\ [][IpNext]_vars

-----------------------------------------------------------------------------
(* Properties of the input-peer sets.                                      *)

IpFrozen(p) == ip[p].commit.input_peers_frozen

\* C21: after freezing, every honest mixing peer holds the same assigned
\* escrows in the same order, however the HELOs of concurrent registrations
\* interleave with each peer's own freeze.
C21_SameAssignedEscrows ==
    \A p, q \in IpPeers :
        (IpFrozen(p) /\ IpFrozen(q)) => ip[p].assigned = ip[q].assigned

\* The assigned escrows of a peer do not change once it has frozen them.
IpAssignedImmutable ==
    [][\A p \in IpPeers : IpFrozen(p) => ip'[p].assigned = ip[p].assigned]_vars

-----------------------------------------------------------------------------
(* Commitment phase of one mixing peer: the flagged escrows, the freeze,   *)
(* the LoopingCall of _poll_for_commitments and the DeferredList that ends *)
(* the phase.  cpLedger is the block chain as bitcoind reports it.         *)

CpEscrows == {0, 1}
Depths == {"none", "block", "deep"}     \* no deposit, 1..5, >= 6 confirmations
Values == {"ok", "low"}                 \* the escrow amount, or too few coins

\* commitment_phase has run: the poller is started, the web server unblocked.
NewCommitmentPhase ==
    [flagged     |-> {},
     frozen      |-> FALSE,
     assigned    |-> {},
     unseen      |-> {},        \* _unseen_tx_escrow_addresses
     last_block  |-> {},        \* the deposits in the blocks before _last_block
     unconfirmed |-> {},        \* _unconfirmed_transactions
     confirmed   |-> {},        \* escrows with tx_confirmed
     threshold   |-> "pending", \* the chain of the threshold deferred
     poller      |-> "running", \* the deferred of LoopingCall.start
     phase_over  |-> FALSE]     \* the DeferredList has fired: shuffling starts

\* DeferredList([threshold_deferred, polling_deferred]) fires once both have
\* a result, a Failure included.
DeferredListFired(c) ==
    c.threshold = "fired" /\ c.poller \in {"stopped", "failed"}

EndOfPhase(c) == [c EXCEPT !.phase_over = DeferredListFired(c)]

\* BaseState.allPaymentsReceived
allPaymentsReceived(c) == c.frozen /\ c.assigned \subseteq c.confirmed

\* _found_transaction on one transaction raises wrong_value when the refund
\* says the input peer may not go on: too few coins in a transaction that
\* already has its confirmations (returnFunds does not refund, and does not
\* object to, a transaction with fewer).
Raises(e) == cpLedger[e].value = "low" /\ cpLedger[e].depth = "deep"

\* The rest of a poll run: _poll_tx_confirmations, foundCommitment and the
\* stop of the LoopingCall when all payments are there.
PollConfirmations(c) ==
    LET done == {e \in c.unconfirmed : cpLedger[e].depth = "deep"}
        c1 == [c EXCEPT !.unconfirmed = @ \ done, !.confirmed = @ \cup done]
    IN  IF allPaymentsReceived(c1) THEN [c1 EXCEPT !.poller = "stopped"] ELSE c1

\* _poll_new_transactions(addresses, block_hash): the transactions to one
\* of the addresses in the blocks from block_hash up to the one below the
\* tip.  A deposit of the ledger has a block on top.
pollNewTransactions(addresses, block_hash) ==
    {e \in addresses : cpLedger[e].depth # "none" /\ e \notin block_hash}

\* One run of _poll_for_commitments.  rpc is TRUE when bitcoind fails while
\* the blocks are read; first is the transaction on which _found_transaction
\* raises (-1: none does) and before the transactions stored ahead of it.
\* An exception ends the run and the LoopingCall.  The blocks are read,
\* and _last_block set to the tip, only while an escrow is unseen.
CpPoll(rpc, first, before) ==
    /\ cp.poller = "running"
    /\ LET found == pollNewTransactions(cp.unseen, cp.last_block)
           store(S) == [cp EXCEPT !.unseen = @ \ S, !.unconfirmed = @ \cup S,
                                  !.last_block =
                                     IF cp.unseen = {} THEN @
                                     ELSE {e \in CpEscrows : cpLedger[e].depth # "none"}]
       IN  /\ rpc => cp.unseen # {}
           /\ first = -1 => (before = found /\ (rpc \/ \A e \in found : ~Raises(e)))
           /\ first # -1 => /\ ~rpc
                            /\ first \in found /\ Raises(first)
                            /\ before \subseteq found \ {first}
                            /\ \A e \in before : ~Raises(e)
           /\ cp' = EndOfPhase(
                      IF rpc THEN [cp EXCEPT !.poller = "failed"]
                      ELSE IF first # -1
                           THEN [store(before \cup {first}) EXCEPT !.poller = "failed"]
                           ELSE PollConfirmations(store(found)))
    /\ UNCHANGED cpLedger
    /\ UNCHANGED otherThanCp

\* An escrow is flagged, by a local registration or by a HELO.
CpFlag(e) ==
    /\ e \notin cp.flagged
    /\ cp' = [cp EXCEPT !.flagged = @ \cup {e}, !.unseen = @ \cup {e}]
    /\ UNCHANGED cpLedger
    /\ UNCHANGED otherThanCp

\* The threshold deferred fires: _block_webserver, _fire_freezing_deferred.
CpFreeze ==
    /\ ~cp.frozen
    /\ cp' = [cp EXCEPT !.frozen = TRUE, !.assigned = cp.flagged]
    /\ UNCHANGED cpLedger
    /\ UNCHANGED otherThanCp

\* The hash shares of the assigned escrows are there: _wait_for_hash_shares
\* and _replace_hash_shares end the chain of the threshold deferred.
CpHashShares ==
    /\ cp.frozen /\ cp.threshold = "pending"
    /\ cp' = EndOfPhase([cp EXCEPT !.threshold = "fired"])
    /\ UNCHANGED cpLedger
    /\ UNCHANGED otherThanCp

\* An input peer pays to an escrow; a block is mined on top.
CpDeposit(e, v) ==
    /\ cpLedger[e].depth = "none"
    /\ cpLedger' = [cpLedger EXCEPT ![e] = [depth |-> "block", value |-> v]]
    /\ UNCHANGED cp
    /\ UNCHANGED otherThanCp

CpSixthConfirmation(e) ==
    /\ cpLedger[e].depth = "block"
    /\ cpLedger' = [cpLedger EXCEPT ![e].depth = "deep"]
    /\ UNCHANGED cp
    /\ UNCHANGED otherThanCp

CpInit ==
    /\ CbIdle
    /\ DkgIdle
    /\ SessIdle
    /\ RecIdle
    /\ ShIdle
    /\ CmIdle
    /\ IpIdle
    /\ TxIdle
    /\ ValIdle
    /\ StIdle
    /\ BtIdle
    /\ RbIdle
    /\ MrIdle
    /\ SgIdle
    /\ cp = NewCommitmentPhase
    /\ cpLedger = [e \in CpEscrows |-> [depth |-> "none", value |-> "ok"]]

CpNext ==
    \/ \E rpc \in BOOLEAN, first \in CpEscrows \cup {-1}, before \in SUBSET CpEscrows :
           CpPoll(rpc, first, before)
    \/ \E e \in CpEscrows : CpFlag(e)
    \/ CpFreeze
    \/ CpHashShares
    \/ \E e \in CpEscrows, v \in Values : CpDeposit(e, v)
    \/ \E e \in CpEscrows : CpSixthConfirmation(e)

SpecCp == CpInit /\ [][CpNext]_vars

-----------------------------------------------------------------------------
(* Properties of the commitment phase.                                     *)

\* C22: the commitment phase ends (the poller has stopped and the shuffling
\* phase starts) only when the input peers are frozen and every assigned
\* escrow has a deposit with at least 6 confirmations, also when a poll run
\* ended with an error.
C22_PhaseEndsCommitted ==
    cp.phase_over =>
        /\ cp.frozen
        /\ \A e \in cp.assigned : cpLedger[e].depth = "deep"

\* Without an error in a poll run the phase ends only with all deposits
\* confirmed.
CpEndsCommittedUnlessFailed ==
    (cp.phase_over /\ cp.poller = "stopped") =>
        /\ cp.frozen
        /\ \A e \in cp.assigned : cpLedger[e].depth = "deep"

\* The LoopingCall runs _poll_for_commitments again and again; bitcoind
\* need not fail.
SpecCpPolling ==
    /\ CpInit
    /\ [][CpNext]_vars
    /\ WF_vars(\E first \in CpEscrows \cup {-1}, before \in SUBSET CpEscrows :
                   CpPoll(FALSE, first, before))

\* The deposit to escrow e has the escrow amount and 6 confirmations.
Deposited(e) == cpLedger[e] = [depth |-> "deep", value |-> "ok"]

\* C40: a deposit of the right value to an assigned escrow is in the end
\* found and confirmed by the poller, unless a poll run has failed, also
\* when its block was read before the escrow was flagged at this peer.
C40_DepositEventuallyConfirmed ==
    \A e \in CpEscrows :
        (e \in cp.assigned /\ Deposited(e))
            ~> (e \in cp.confirmed \/ cp.poller = "failed")

\* The same for an escrow whose deposit is not in a block that was read
\* while the escrow was not in the unseen list.
CpConfirmedUnlessReadBefore ==
    \A e \in CpEscrows :
        (e \in cp.assigned /\ Deposited(e) /\ ~(e \in cp.unseen /\ e \in cp.last_block))
            ~> (e \in cp.confirmed \/ cp.poller = "failed")

-----------------------------------------------------------------------------
(* Transaction phase of one mixing peer: the disbursement transactions of  *)
(* the assigned escrows, created one after another in the order of the     *)
(* serialized schedule.                                                    *)

TxEscrows == {0, 1}
MaxSplit == 3

\* serialize_schedules: each escrow appears once for every part of its split.
Schedules ==
    {s \in UNION {[1 .. l -> TxEscrows] : l \in 1 .. 2 * MaxSplit} :
        \A e \in TxEscrows :
            Cardinality({i \in DOMAIN s : s[i] = e}) \in 1 .. MaxSplit}

\* create_transaction for entry i of the schedule: the deferred d is made and
\* reactor.callLater will fire it.
create_transaction(st, i) ==
    IF i \in DOMAIN st THEN [st EXCEPT ![i] = "scheduled"] ELSE st

\* _computeTransaction with the signature the Rec of S gave: VerifyScript on
\* scriptSig and scriptPubKey; the serialized transaction, or RuntimeError.
computeTransaction(valid) == IF valid THEN "serialized" ELSE "signing_failed"

\* The timer of entry i fires d: createTransaction builds the transaction and
\* starts the signature.
TxTimer(i) ==
    /\ txState[i] = "scheduled"
    /\ txState' = [txState EXCEPT ![i] = "signing"]
    /\ UNCHANGED <<txSchedule, txSent, txConcluded>>
    /\ UNCHANGED otherThanTx

\* The signature of entry i is there.  A transaction that verifies fires
\* tx_deferred; d runs _debug_print and _return_next_logical_time, and the
\* chain of finished creates the next transaction or, after the last one,
\* concludes the mixing.  On RuntimeError _fire_response is skipped, so
\* tx_deferred and with it d and finished stay pending.
TxSigned(i, valid) ==
    /\ txState[i] = "signing"
    /\ LET res == computeTransaction(valid)
       IN  IF res = "serialized"
           THEN /\ txState' = create_transaction([txState EXCEPT ![i] = "done"], i + 1)
                /\ txConcluded' = (i = Len(txSchedule))
           ELSE /\ txState' = [txState EXCEPT ![i] = "failed"]
                /\ UNCHANGED txConcluded
    /\ UNCHANGED <<txSchedule, txSent>>
    /\ UNCHANGED otherThanTx

\* transaction_phase has run: the first transaction is scheduled.
TxInit ==
    /\ CbIdle
    /\ DkgIdle
    /\ SessIdle
    /\ RecIdle
    /\ ShIdle
    /\ CmIdle
    /\ IpIdle
    /\ CpIdle
    /\ ValIdle
    /\ StIdle
    /\ BtIdle
    /\ RbIdle
    /\ MrIdle
    /\ SgIdle
    /\ txSchedule \in Schedules
    /\ txState = create_transaction([i \in DOMAIN txSchedule |-> "waiting"], 1)
    /\ txSent = {}
    /\ txConcluded = FALSE

TxNext ==
    \/ \E i \in DOMAIN txSchedule : TxTimer(i)
    \/ \E i \in DOMAIN txSchedule, valid \in BOOLEAN : TxSigned(i, valid)

SpecTx == TxInit /\ [][TxNext]_vars

-----------------------------------------------------------------------------
(* Properties of the transaction phase.                                    *)

\* C25: a disbursement transaction whose scriptSig verified locally has been
\* handed to sendrawtransaction by the time the mixing is concluded, and a
\* transaction that failed the local verification is never handed to it.
C25_VerifiedIsSubmitted ==
    /\ txConcluded =>
          \A i \in DOMAIN txSchedule : txState[i] = "done" => i \in txSent
    /\ \A i \in DOMAIN txSchedule : txState[i] = "failed" => i \notin txSent

\* No transaction of the phase reaches sendrawtransaction at all.
TxNothingSubmitted == txSent = {}

-----------------------------------------------------------------------------
(* One value of the shared value engine and the completions its users get  *)
(* from getSecretShare and getPublicValue.  A value or a result is <<v>>,  *)
(* None is <<>>.                                                            *)

ValKinds == {"wrap", "cmul", "add", "mul", "rec", "jfdkg", "dkg"}
WithPublicValue == {"rec", "jfdkg", "dkg"}
ValShares == {0, 3}
MaxCompletions == 3

\* SmpcValue.__init__ and ActiveSmpcValueWithPublicValue.__init__
NewSmpcValue ==
    [secret_share            |-> <<>>,
     secret_share_dependents |-> <<>>,
     public_value            |-> <<>>,
     public_value_dependents |-> <<>>]

\* The completions of the list d fire with result r, in the order of d.
Fire(d, which, r) == [i \in DOMAIN d |-> [id |-> d[i], which |-> which, value |-> r]]

\* getSecretShare for the completion c: what becomes of the value and what
\* fires at once.
getSecretShare(v, c) ==
    IF v.secret_share = <<>>
    THEN [value |-> [v EXCEPT !.secret_share_dependents = Append(@, c)], fired |-> <<>>]
    ELSE [value |-> v, fired |-> Fire(<<c>>, "secret", v.secret_share)]

getPublicValue(v, c) ==
    IF v.public_value = <<>>
    THEN [value |-> [v EXCEPT !.public_value_dependents = Append(@, c)], fired |-> <<>>]
    ELSE [value |-> v, fired |-> Fire(<<c>>, "public", v.public_value)]

\* informDependentSecretDeferreds: list.pop() takes the last element.
informDependentSecretDeferreds(v) ==
    [value |-> [v EXCEPT !.secret_share_dependents = <<>>],
     fired |-> Fire(Reverse(v.secret_share_dependents), "secret", v.secret_share)]

informDependentPublicDeferreds(v) ==
    [value |-> [v EXCEPT !.public_value_dependents = <<>>],
     fired |-> Fire(Reverse(v.public_value_dependents), "public", v.public_value)]

\* The end of the initialize chain of each kind, when the share s is there.
\*   wrap, cmul, add: _secret_share is set and _secret_share_deferred fired;
\*                    the dependents are not informed.
\*   rec:             _inform_dependent_secret_deferreds runs ahead of
\*                    distributeShares, which sets _secret_share.
\*   mul, dkg:        recombineSecretShare / setSecretShare, then the inform.
\*   jfdkg:           computePublicValue sets share and public value, then
\*                    both lists are informed.
ResolveSecretShare(kind, v, s) ==
    CASE kind \in {"wrap", "cmul", "add"} ->
             [value |-> [v EXCEPT !.secret_share = <<s>>], fired |-> <<>>]
      [] kind = "rec" ->
             LET r == informDependentSecretDeferreds(v)
             IN  [value |-> [r.value EXCEPT !.secret_share = <<s>>], fired |-> r.fired]
      [] kind \in {"mul", "dkg"} ->
             informDependentSecretDeferreds([v EXCEPT !.secret_share = <<s>>])
      [] kind = "jfdkg" ->
             LET r1 == informDependentSecretDeferreds(
                           [v EXCEPT !.secret_share = <<s>>, !.public_value = <<s + 1>>])
                 r2 == informDependentPublicDeferreds(r1.value)
             IN  [value |-> r2.value, fired |-> r1.fired \o r2.fired]

\* rec: computePublicValue, then the inform; dkg: setPublicValue, then the
\* inform.
ResolvePublicValue(v, s) ==
    informDependentPublicDeferreds([v EXCEPT !.public_value = <<s + 1>>])

ValGetSecretShare ==
    /\ Len(valReg) < MaxCompletions
    /\ LET r == getSecretShare(val, Len(valReg) + 1)
       IN  /\ val' = r.value
           /\ valFired' = valFired \o r.fired
    /\ valReg' = Append(valReg, "secret")
    /\ UNCHANGED <<valKind, valShare>>
    /\ UNCHANGED otherThanVal

ValGetPublicValue ==
    /\ valKind \in WithPublicValue
    /\ Len(valReg) < MaxCompletions
    /\ LET r == getPublicValue(val, Len(valReg) + 1)
       IN  /\ val' = r.value
           /\ valFired' = valFired \o r.fired
    /\ valReg' = Append(valReg, "public")
    /\ UNCHANGED <<valKind, valShare>>
    /\ UNCHANGED otherThanVal

ValResolveSecret ==
    /\ val.secret_share = <<>>
    /\ LET r == ResolveSecretShare(valKind, val, valShare)
       IN  /\ val' = r.value
           /\ valFired' = valFired \o r.fired
    /\ UNCHANGED <<valKind, valShare, valReg>>
    /\ UNCHANGED otherThanVal

ValResolvePublic ==
    /\ valKind \in {"rec", "dkg"}
    /\ val.secret_share # <<>> /\ val.public_value = <<>>
    /\ LET r == ResolvePublicValue(val, valShare)
       IN  /\ val' = r.value
           /\ valFired' = valFired \o r.fired
    /\ UNCHANGED <<valKind, valShare, valReg>>
    /\ UNCHANGED otherThanVal

ValInit ==
    /\ CbIdle
    /\ DkgIdle
    /\ SessIdle
    /\ RecIdle
    /\ ShIdle
    /\ CmIdle
    /\ IpIdle
    /\ CpIdle
    /\ TxIdle
    /\ StIdle
    /\ BtIdle
    /\ RbIdle
    /\ MrIdle
    /\ SgIdle
    /\ valKind \in ValKinds
    /\ valShare \in ValShares
    /\ val = NewSmpcValue
    /\ valReg = <<>>
    /\ valFired = <<>>

ValNext ==
    \/ ValGetSecretShare
    \/ ValGetPublicValue
    \/ ValResolveSecret
    \/ ValResolvePublic

SpecVal == ValInit /\ [][ValNext]_vars

-----------------------------------------------------------------------------
(* Properties of the completions of a value.                               *)

FiredWith(c, which, r) ==
    \E i \in DOMAIN valFired : valFired[i] = [id |-> c, which |-> which, value |-> r]

\* C26: whatever the kind of the value, a completion obtained from
\* getSecretShare has fired with the resolved share once the value is
\* resolved, whether it was obtained before or after the resolution.
C26_SecretCompletionsFire ==
    val.secret_share # <<>> =>
        \A c \in DOMAIN valReg :
            valReg[c] = "secret" => FiredWith(c, "secret", val.secret_share)

\* The same for the kinds that inform their dependents after they have set
\* the share.
ValInformingKindsFire ==
    (valKind \in {"mul", "jfdkg", "dkg"} /\ val.secret_share # <<>>) =>
        \A c \in DOMAIN valReg :
            valReg[c] = "secret" => FiredWith(c, "secret", val.secret_share)

\* C27: the completions on the secret-share promise, and those on the
\* public-value promise, fire in the order in which they were registered.
C27_RegistrationOrder ==
    \A i, j \in DOMAIN valFired :
        (i < j /\ valFired[i].which = valFired[j].which)
            => valFired[i].id < valFired[j].id

-----------------------------------------------------------------------------
(* The SmpcStore of one session: _values maps an id to the list of the     *)
(* values of its indexes.  An id without a list has <<>>, a list entry     *)
(* without a value has NoValue.  A value object is its kind and the number *)
(* of its creation, which tells two objects of one kind apart.             *)

StoreIds == {1, 2}
StoreIndexes == {0, 1}
MaxValues == 3
\* The names asked of newValue: four that getAlgorithm knows and one that it
\* does not.
StoreKinds == {"dkg", "rec", "wrap", "cmul", "add"}
NoValue == [kind |-> "None", serial |-> 0]
ValueError == [kind |-> "ValueError", serial |-> 0]
RuntimeError == [kind |-> "RuntimeError", serial |-> 0]

\* SmpcStore.getAlgorithm: the names with a class.
getAlgorithm == {"jfdkg", "dkg", "mul", "rec", "wrap", "cmul"}

getValue(values, id, index) ==
    IF index + 1 <= Len(values[id]) THEN values[id][index + 1] ELSE NoValue

Created(values) ==
    {<<id, i>> \in StoreIds \X StoreIndexes : getValue(values, id, i) # NoValue}

\* [None] * n
RECURSIVE NoValues(_)
NoValues(n) == IF n = 0 THEN <<>> ELSE Append(NoValues(n - 1), NoValue)

\* addValue: the list of id is created or lengthened with None up to index,
\* an occupied entry raises, a free one takes the value.
addValue(values, smpc_value, id, index) ==
    LET array  == IF values[id] = <<>> THEN NoValues(index + 1) ELSE values[id]
        padded == IF index + 1 > Len(array)
                  THEN array \o NoValues(index + 1 - Len(array))
                  ELSE array
    IN  IF padded[index + 1] # NoValue
        THEN [values |-> [values EXCEPT ![id] = padded], ret |-> RuntimeError]
        ELSE [values |-> [values EXCEPT ![id] = [padded EXCEPT ![index + 1] = smpc_value]],
              ret    |-> smpc_value]

\* A newValue without the look at the slot.
newValueOverwriting(values, smpc_algorithm, id, index, serial) ==
    LET smpc_value == [kind |-> smpc_algorithm, serial |-> serial]
        array  == IF values[id] = <<>> THEN NoValues(index + 1) ELSE values[id]
        padded == IF index + 1 > Len(array)
                  THEN array \o NoValues(index + 1 - Len(array))
                  ELSE array
    IN  IF smpc_algorithm \notin getAlgorithm
        THEN [values |-> values, ret |-> ValueError]
        ELSE [values |-> [values EXCEPT ![id] = [padded EXCEPT ![index + 1] = smpc_value]],
              ret    |-> smpc_value]

\* newValue: the value of an occupied slot, or a new object of the class of
\* smpc_algorithm handed to addValue.
newValue(values, smpc_algorithm, id, index, serial) ==
    IF values[id] # <<>> /\ index < Len(values[id]) /\ values[id][index + 1] # NoValue
    THEN [values |-> values, ret |-> values[id][index + 1]]
    ELSE IF smpc_algorithm \notin getAlgorithm
         THEN [values |-> values, ret |-> ValueError]
         ELSE addValue(values, [kind |-> smpc_algorithm, serial |-> serial], id, index)

StNewValue(kind, id, index) ==
    /\ Cardinality(Created(smpcValues)) < MaxValues \/ <<id, index>> \in Created(smpcValues)
    /\ LET r == newValue(smpcValues, kind, id, index, Cardinality(Created(smpcValues)) + 1)
       IN  /\ smpcValues' = r.values
           /\ stRet' = r.ret
    /\ stCall' = [kind |-> kind, id |-> id, index |-> index]
    /\ UNCHANGED otherThanSt

StInit ==
    /\ CbIdle
    /\ DkgIdle
    /\ SessIdle
    /\ RecIdle
    /\ ShIdle
    /\ CmIdle
    /\ IpIdle
    /\ CpIdle
    /\ TxIdle
    /\ ValIdle
    /\ BtIdle
    /\ RbIdle
    /\ MrIdle
    /\ SgIdle
    /\ smpcValues = [id \in StoreIds |-> <<>>]
    /\ stCall = [kind |-> "None", id |-> 0, index |-> 0]
    /\ stRet = NoValue

StNext == \E kind \in StoreKinds, id \in StoreIds, index \in StoreIndexes : StNewValue(kind, id, index)

SpecStore == StInit /\ [][StNext]_vars

-----------------------------------------------------------------------------
(* Properties of the store.                                                 *)

\* C28: newValue is idempotent per slot.  On an occupied slot it returns the
\* value object that is there, whatever kind is asked for, and changes
\* nothing in the store; on a free slot it puts one new value of the kind
\* asked for into that slot and leaves every other slot as it was.
C28_NewValueIdempotent ==
    [][LET id    == stCall'.id
           index == stCall'.index
           old   == getValue(smpcValues, id, index)
       IN  /\ old # NoValue =>
                 /\ smpcValues' = smpcValues
                 /\ stRet' = old
           /\ (old = NoValue /\ stCall'.kind \in getAlgorithm) =>
                 /\ stRet'.kind = stCall'.kind
                 /\ stRet' \notin {getValue(smpcValues, s[1], s[2]) : s \in StoreIds \X StoreIndexes}
                 /\ getValue(smpcValues', id, index) = stRet'
                 /\ \A s \in (StoreIds \X StoreIndexes) \ {<<id, index>>} :
                        getValue(smpcValues', s[1], s[2]) = getValue(smpcValues, s[1], s[2])]_vars

\* An occupied slot was asked for with another kind than that of its value,
\* and a free slot above the end of a list was filled.
C28_Witness ==
    /\ stRet.kind \in getAlgorithm
    /\ stRet.kind # stCall.kind
    /\ \E id \in StoreIds : Len(smpcValues[id]) = 2 /\ smpcValues[id][1] = NoValue

-----------------------------------------------------------------------------
(* One Broadcast or Eachcast transaction after its construction, and the   *)
(* responses that receivedResponse is called with.                         *)

BtRanks == {0, 1, 2}
MaxResponses == 4

\* Transaction.__init__ and the __init__ of the two classes: the requests
\* are written, _expected_responses is the list of the ranks of peers, and
\* without a result_fetcher the deferred is fired at once.
NewTransaction(class, fetcher, peers) ==
    [class              |-> class,
     result_fetcher     |-> fetcher,
     expected_responses |-> SetToSeq(peers),
     called             |-> ~fetcher,
     is_positive        |-> ~fetcher]

\* list.index and del
IndexOf(s, x) == CHOOSE i \in DOMAIN s : s[i] = x /\ \A j \in 1 .. i - 1 : s[j] # x
DeleteAt(s, i) == SubSeq(s, 1, i - 1) \o SubSeq(s, i + 1, Len(s))

\* BroadcastTransaction.receivedResponse for a response of rank whose
\* result_fetcher says positive: the transaction afterwards and what the
\* caller gets.
BroadcastReceivedResponse(t, rank, positive) ==
    IF t.called \/ ~t.result_fetcher
    THEN [t |-> t, out |-> "ignored"]
    ELSE IF \A i \in DOMAIN t.expected_responses : t.expected_responses[i] # rank
         THEN [t |-> t, out |-> "peer_already_responded"]
         ELSE LET rest == DeleteAt(t.expected_responses, IndexOf(t.expected_responses, rank))
              IN  [t   |-> [t EXCEPT !.expected_responses = rest,
                                     !.is_positive = positive,
                                     !.called = (rest = <<>>)],
                   out |-> "accepted"]

\* EachcastTransaction.receivedResponse: super(BroadcastTransaction, self)
\* with a self that is no BroadcastTransaction raises TypeError.
EachcastReceivedResponse(t, rank, positive) == [t |-> t, out |-> "TypeError"]

BtReceivedResponse(rank, positive) ==
    /\ Len(btLog) < MaxResponses
    /\ LET r == IF bt.class = "Broadcast"
                THEN BroadcastReceivedResponse(bt, rank, positive)
                ELSE EachcastReceivedResponse(bt, rank, positive)
       IN  /\ bt' = r.t
           /\ btLog' = Append(btLog, [rank |-> rank, out |-> r.out, pending |-> ~bt.called])
    /\ UNCHANGED btPeers
    /\ UNCHANGED otherThanBt

BtInit ==
    /\ CbIdle
    /\ DkgIdle
    /\ SessIdle
    /\ RecIdle
    /\ ShIdle
    /\ CmIdle
    /\ IpIdle
    /\ CpIdle
    /\ TxIdle
    /\ ValIdle
    /\ StIdle
    /\ RbIdle
    /\ MrIdle
    /\ SgIdle
    /\ btPeers \in (SUBSET BtRanks) \ {{}}
    /\ \E class \in {"Broadcast", "Eachcast"}, fetcher \in BOOLEAN :
           bt = NewTransaction(class, fetcher, btPeers)
    /\ btLog = <<>>

BtNext == \E rank \in BtRanks, positive \in BOOLEAN : BtReceivedResponse(rank, positive)

SpecBt == BtInit /\ [][BtNext]_vars

-----------------------------------------------------------------------------
(* Properties of the Broadcast and Eachcast transactions.                   *)

\* The ranks of which a response has come.
BtReplied == {btLog[i].rank : i \in DOMAIN btLog}

\* A rank of the transaction answered a second time while the transaction
\* was pending.
BtDuplicate ==
    \E i, j \in DOMAIN btLog :
        i < j /\ btLog[i].rank = btLog[j].rank /\ btLog[j].rank \in btPeers /\ btLog[j].pending

BtCompleted == bt.called /\ bt.is_positive

\* C29: the completion of a Broadcast transaction has fired exactly when
\* every expected rank has replied, never earlier, and after a second reply
\* of a rank that had replied the transaction does not complete.
C29_BroadcastCompletion ==
    bt.class = "Broadcast" =>
        /\ bt.called <=> btPeers \subseteq BtReplied
        /\ BtDuplicate => ~BtCompleted

\* The first half for a Broadcast transaction that has a result_fetcher.
BtFetcherFiresOnLastReply ==
    (bt.class = "Broadcast" /\ bt.result_fetcher) =>
        (bt.called <=> btPeers \subseteq BtReplied)

\* C30: the completion of an Eachcast transaction has fired exactly when
\* every addressed rank has replied.
C30_EachcastCompletion ==
    bt.class = "Eachcast" => (bt.called <=> btPeers \subseteq BtReplied)

\* No response changes an Eachcast transaction: it is as its construction
\* left it.
BtEachcastNeverAccepts ==
    bt.class = "Eachcast" =>
        /\ bt = NewTransaction("Eachcast", bt.result_fetcher, btPeers)
        /\ \A i \in DOMAIN btLog : btLog[i].out = "TypeError"

-----------------------------------------------------------------------------
(* One handle of the reliable broadcast (ReliableBroadcastTransaction) in  *)
(* the transaction store of peer RbMe, and the SEND, ECHO and READY frames *)
(* that receivedResponse is called with, under any rank and with any of    *)
(* the messages.                                                           *)

RbSizes == {4}
MaxRbFrames == 6

RbN == CHOOSE n \in RbSizes : TRUE
RbT == MixpeerThreshold(RbN)
\* The peer that holds the handle: the one of the lowest rank.
RbMe == CHOOSE r \in Ranks(RbN) : \A q \in Ranks(RbN) : r <= q

\* The number of entries of array that are x.
Matching(array, x) == Cardinality({i \in DOMAIN array : array[i] = x})

\* A count that takes every entry that is not None.
histAll(array) ==
    LET present == {array[i] : i \in DOMAIN array} \ {NoMsg}
    IN  IF present = {} THEN [number |-> 0, msg |-> NoMsg]
        ELSE [number |-> Cardinality({i \in DOMAIN array : array[i] # NoMsg}),
              msg    |-> array[CHOOSE i \in DOMAIN array :
                                  /\ array[i] # NoMsg
                                  /\ \A j \in DOMAIN array : array[j] # NoMsg => i <= j]]

\* ReliableBroadcastTransaction._hist: the value with the most occurrences
\* (the one met first among equals) and the number of its occurrences.
hist(array) ==
    LET present == {array[i] : i \in DOMAIN array} \ {NoMsg}
        first(x) == CHOOSE i \in DOMAIN array :
                        array[i] = x /\ \A j \in DOMAIN array : array[j] = x => i <= j
        best == CHOOSE x \in present :
                    \A y \in present :
                        \/ Matching(array, y) < Matching(array, x)
                        \/ Matching(array, y) = Matching(array, x) /\ first(x) <= first(y)
    IN  IF present = {} THEN [number |-> 0, msg |-> NoMsg]
        ELSE [number |-> Matching(array, best), msg |-> best]

\* ReliableBroadcastTransaction.__init__ with active = False
NewReliable ==
    [kind          |-> "active",
     echos         |-> [i \in Ranks(RbN) |-> NoMsg],
     readys        |-> [i \in Ranks(RbN) |-> NoMsg],
     ready_sent    |-> FALSE,
     msg           |-> NoMsg,
     send_received |-> FALSE]

\* The state of a call: the handle, the frames broadcast and the messages
\* delivered.  A READY that is sent and a delivery are written down with the
\* numbers of the entries that matched their message.
RbState(h, out, dlv) == [h |-> h, out |-> out, dlv |-> dlv]

\* receivedReady, the branch of 2t+1: _value and _fireDeferred, and _killMe
\* puts the zombie under the sequence number.
RbDeliver(s, number, msg) ==
    IF number = 2 * RbT + 1
    THEN RbState([s.h EXCEPT !.kind = "killed"], s.out,
                 Append(s.dlv, [m |-> msg, readys |-> Matching(s.h.readys, msg)]))
    ELSE s

\* sendReady: nothing when a READY was sent; else the READY with _msg goes
\* out, _ready_sent is set, and receivedReady runs for the own rank, where
\* with _ready_sent set only the branch of 2t+1 is left.
sendReady(s) ==
    IF s.h.ready_sent THEN s
    ELSE LET out == Append(s.out, [type   |-> "r", m |-> s.h.msg,
                                   echos  |-> Matching(s.h.echos, s.h.msg),
                                   readys |-> Matching(s.h.readys, s.h.msg)])
             h1  == [s.h EXCEPT !.ready_sent = TRUE, !.readys[RbMe] = s.h.msg]
             hr  == hist(h1.readys)
         IN  RbDeliver(RbState(h1, out, s.dlv), hr.number, hr.msg)

\* receivedReady
receivedReady(s, rank, msg) ==
    LET h1 == [s.h EXCEPT !.readys[rank] = msg]
        hr == hist(h1.readys)
    IN  IF hr.number = RbT + 1 /\ ~h1.ready_sent
        THEN sendReady(RbState([h1 EXCEPT !.msg = hr.msg], s.out, s.dlv))
        ELSE RbDeliver(RbState(h1, s.out, s.dlv), hr.number, hr.msg)

\* receivedEcho
receivedEcho(s, rank, msg) ==
    LET h1 == [s.h EXCEPT !.echos[rank] = msg]
        he == hist(h1.echos)
    IN  IF he.number = TEcho(RbN, RbT) /\ ~h1.ready_sent
        THEN sendReady(RbState([h1 EXCEPT !.msg = he.msg], s.out, s.dlv))
        ELSE RbState(h1, s.out, s.dlv)

\* receivedSend and sendEcho
receivedSend(s, rank, msg) ==
    IF s.h.send_received THEN s
    ELSE LET h1 == [s.h EXCEPT !.send_received = TRUE, !.msg = msg]
             out == Append(s.out, [type |-> "e", m |-> msg, echos |-> 0, readys |-> 0])
         IN  receivedEcho(RbState(h1, out, s.dlv), RbMe, msg)

\* ReliableBroadcastTransaction.receivedResponse; the zombie
\* (KilledReliableBroadcastTransaction.receivedResponse) only ticks off
\* the frame.
RbReceivedResponse(s, type, rank, msg) ==
    IF s.h.kind = "killed" THEN s
    ELSE CASE type = "s" -> receivedSend(s, rank, msg)
           [] type = "e" -> receivedEcho(s, rank, msg)
           [] type = "r" -> receivedReady(s, rank, msg)

RbFrame(type, rank, msg) ==
    /\ rbFrames < MaxRbFrames
    /\ rbFrames' = rbFrames + 1
    /\ LET s == RbReceivedResponse(RbState(rb, rbOut, rbDelivered), type, rank, msg)
       IN  /\ rb' = s.h
           /\ rbOut' = s.out
           /\ rbDelivered' = s.dlv
    /\ UNCHANGED otherThanRb

RbInit ==
    /\ CbIdle
    /\ DkgIdle
    /\ SessIdle
    /\ RecIdle
    /\ ShIdle
    /\ CmIdle
    /\ IpIdle
    /\ CpIdle
    /\ TxIdle
    /\ ValIdle
    /\ StIdle
    /\ BtIdle
    /\ MrIdle
    /\ SgIdle
    /\ rb = NewReliable
    /\ rbOut = <<>>
    /\ rbDelivered = <<>>
    /\ rbFrames = 0

RbNext ==
    \E type \in {"s", "e", "r"}, rank \in Ranks(RbN), msg \in Msgs : RbFrame(type, rank, msg)

SpecRb == RbInit /\ [][RbNext]_vars

-----------------------------------------------------------------------------
(* Properties of the reliable broadcast handle.                            *)

RbReadys == {i \in DOMAIN rbOut : rbOut[i].type = "r"}

\* C31: a peer sends READY at most once, and only with ceil((n+t+1)/2)
\* matching ECHOs or t+1 matching READYs for its message; it delivers only a
\* message of which it holds 2t+1 matching READYs of distinct ranks, and it
\* delivers at most once.
C31_ReliableBroadcastSafety ==
    /\ Cardinality(RbReadys) <= 1
    /\ \A i \in RbReadys :
           rbOut[i].echos >= TEcho(RbN, RbT) \/ rbOut[i].readys >= RbT + 1
    /\ Len(rbDelivered) <= 1
    /\ \A i \in DOMAIN rbDelivered : rbDelivered[i].readys >= 2 * RbT + 1

\* A message was delivered on the READYs of the others after frames for
\* another message had come; and a READY was sent on the ECHO quorum.
C31_Witness ==
    /\ Len(rbDelivered) = 1
    /\ \E i \in DOMAIN rb.readys : rb.readys[i] \notin {NoMsg, rbDelivered[1].m}
    /\ \E i \in RbReadys : rbOut[i].echos >= TEcho(RbN, RbT)

\* C32: the echo count and the ready count of a handle, as they are
\* compared with the thresholds, do not go down from one received frame to
\* the next, whatever a rank sends a second time.
C32_CountsMonotone ==
    [][/\ hist(rb'.echos).number >= hist(rb.echos).number
       /\ hist(rb'.readys).number >= hist(rb.readys).number]_vars

\* The same for the handles of the consistent broadcast, whose receivedEcho
\* stores a signature only if it verifies and never takes one away: in a
\* step in which a peer reads a frame (no broadcast is started, which would
\* put a new handle into the store) the count of a handle does not go down.
CbEchoCountMonotone ==
    [][\A p \in Ranks(cbN) : \A q \in Seqs :
          (/\ seqctr' = seqctr
           /\ transactions[p][q].kind = "active" /\ transactions'[p][q].kind = "active")
              => GetEchoNumber(transactions'[p][q]) >= GetEchoNumber(transactions[p][q])]_vars

-----------------------------------------------------------------------------
(* The streaming decoder of one connection (MsgReceiver.dataReceived).  A  *)
(* byte stream is handed to it in chunks; the loop of dataReceived is      *)
(* followed turn by turn.  A frame is the sequence of its bytes: the       *)
(* length field is the big-endian number in the bytes 8 to 11.             *)

HeaderSize == 12
LengthOffset == 8
MaxMrFrames == 2
\* The sizes of the frames of a stream, and the length fields of a frame
\* that lies about its size.
MrSizes == {HeaderSize, HeaderSize + 2}
MrBadLengths == {0, 5}

RECURSIVE Repeat(_, _)
Repeat(b, k) == IF k = 0 THEN <<>> ELSE Append(Repeat(b, k - 1), b)

\* MessageHandler.setLength on a frame of size bytes filled with tag, with
\* length in the length field.
MrFrameOf(tag, size, length) ==
    Repeat(tag, LengthOffset)
        \o << (length \div 16777216) % 256, (length \div 65536) % 256,
              (length \div 256) % 256, length % 256 >>
        \o Repeat(tag, size - HeaderSize)

RECURSIVE Concat(_)
Concat(fs) == IF fs = <<>> THEN <<>> ELSE Head(fs) \o Concat(Tail(fs))

\* The lists of frames whose length field is their size: frame i is filled
\* with the byte i.
WellFormedFrames ==
    UNION {{[i \in 1 .. l |-> MrFrameOf(i, sz[i], sz[i])] : sz \in [1 .. l -> MrSizes]}
              : l \in 1 .. MaxMrFrames}

\* A header with a wrong length field, and a frame after it.
MalformedFrames ==
    {<<MrFrameOf(1, HeaderSize, n), MrFrameOf(2, sz, sz)>> : n \in MrBadLengths, sz \in MrSizes}

\* A length field read with the bytes in the wrong order.
getLengthLittleEndian(msg) ==
    msg[LengthOffset + 1] + 256 * msg[LengthOffset + 2]
        + 65536 * msg[LengthOffset + 3] + 16777216 * msg[LengthOffset + 4]

\* MessageHandler.getLength: struct('>I') over msg[8:12]
getLength(msg) ==
    16777216 * msg[LengthOffset + 1] + 65536 * msg[LengthOffset + 2]
        + 256 * msg[LengthOffset + 3] + msg[LengthOffset + 4]

\* dataReceived is called with the next k bytes of the stream: they are put
\* to the end of the buffer and the loop is entered.
MrDataReceived(k) ==
    /\ mrPc = "idle"
    /\ mrPos + k <= Len(Concat(mrFrames))
    /\ mrBuffer' = mrBuffer \o SubSeq(Concat(mrFrames), mrPos + 1, mrPos + k)
    /\ mrPos' = mrPos + k
    /\ mrPc' = "loop"
    /\ UNCHANGED <<mrFrames, mrExpected, mrEmitted, mrTurn>>
    /\ UNCHANGED otherThanMr

\* One turn of the loop `while True` of dataReceived.
MrLoop ==
    /\ mrPc = "loop"
    /\ mrTurn' = 1 - mrTurn
    /\ IF mrExpected = 0
       THEN IF Len(mrBuffer) < HeaderSize
            THEN /\ mrPc' = "idle"
                 /\ UNCHANGED <<mrBuffer, mrExpected, mrEmitted>>
            ELSE /\ mrExpected' = getLength(mrBuffer)
                 /\ UNCHANGED <<mrBuffer, mrEmitted, mrPc>>
       ELSE IF Len(mrBuffer) >= mrExpected
            THEN /\ mrEmitted' = Append(mrEmitted, SubSeq(mrBuffer, 1, mrExpected))
                 /\ mrBuffer' = SubSeq(mrBuffer, mrExpected + 1, Len(mrBuffer))
                 /\ mrExpected' = 0
                 /\ UNCHANGED mrPc
            ELSE /\ mrPc' = "idle"
                 /\ UNCHANGED <<mrBuffer, mrExpected, mrEmitted>>
    /\ UNCHANGED <<mrFrames, mrPos>>
    /\ UNCHANGED otherThanMr

MrInit ==
    /\ CbIdle
    /\ DkgIdle
    /\ SessIdle
    /\ RecIdle
    /\ ShIdle
    /\ CmIdle
    /\ IpIdle
    /\ CpIdle
    /\ TxIdle
    /\ ValIdle
    /\ StIdle
    /\ BtIdle
    /\ RbIdle
    /\ SgIdle
    /\ mrFrames \in WellFormedFrames \cup MalformedFrames
    /\ mrPos = 0
    /\ mrBuffer = <<>>
    /\ mrExpected = 0
    /\ mrEmitted = <<>>
    /\ mrPc = "idle"
    /\ mrTurn = 0

MrNext ==
    \/ \E k \in 1 .. MaxMrFrames * (HeaderSize + 2) : MrDataReceived(k)
    \/ MrLoop

\* A call of dataReceived goes on until it returns.
SpecMr == MrInit /\ [][MrNext]_vars /\ WF_vars(MrLoop)

-----------------------------------------------------------------------------
(* Properties of the decoder.                                               *)

\* The frames of the stream that lie wholly in its first n bytes.
RECURSIVE WholeFrames(_, _)
WholeFrames(fs, n) ==
    IF fs = <<>> \/ Len(Head(fs)) > n THEN <<>>
    ELSE <<Head(fs)>> \o WholeFrames(Tail(fs), n - Len(Head(fs)))

C39_DataReceivedReturns == [](mrPc = "loop" => <>(mrPc = "idle"))

\* Every call returns unless the length field at the head of the buffer is 0.
MrReturnsUnlessZeroLength ==
    []((mrPc = "loop" /\ mrFrames[1][HeaderSize] # 0) => <>(mrPc = "idle"))

-----------------------------------------------------------------------------
(* The signing of disbursement transactions in the processes of the       *)
(* mixing peers of mixnet_a: transaction_ctr is one counter of the module  *)
(* TransactionProtocol, so of the process, while the Rec values 'S' live   *)
(* in the SmpcStore of a session.  A process may host mixnet_b as well,    *)
(* whose other peers are processes that are not followed.                  *)

SgRanks == {0, 1, 2}
MaxSignatures == 2

\* The index has a value 'S' in the store of mixnet_a at p.
SgCreated(store, i) == \E r \in SgRanks : <<i, r>> \in store
\* RecombinationSmpcValue.receivedPublicValue: no share is missing.
SgComplete(store, i) == \A r \in SgRanks : <<i, r>> \in store

\* _reconstruct_signature: state.smpc.newValue('rec', state, 'S', transaction_ctr)
slotOfReconstruct(ctr, p) == ctr[p]

\* _extract_signature: state.smpc.getValue('S', transaction_ctr) has no
\* getPublicValue if it is None; else the counter of the process goes up.
SgExtract(p, store) ==
    IF SgCreated(store, transaction_ctr[p])
    THEN /\ transaction_ctr' = [transaction_ctr EXCEPT ![p] = @ + 1]
         /\ sgPc' = [sgPc EXCEPT ![p] = "idle"]
    ELSE /\ sgPc' = [sgPc EXCEPT ![p] = "failed"]
         /\ UNCHANGED transaction_ctr

\* createTransaction of the next transaction of mixnet_a at p, up to
\* S.initialize: the share of p is stored and sent to the other peers.
SgReconstruct(p) ==
    /\ sgPc[p] = "idle"
    /\ Len(sgSlot[p]) < MaxSignatures
    /\ LET idx == slotOfReconstruct(transaction_ctr, p)
           store == sgStore[p] \cup {<<idx, p>>}
       IN  /\ sgSlot' = [sgSlot EXCEPT ![p] = Append(@, idx)]
           /\ sgStore' = [sgStore EXCEPT ![p] = store]
           /\ sgChan' = sgChan \cup {[to |-> q, from |-> p, index |-> idx] :
                                        q \in SgRanks \ {p}}
           /\ IF SgComplete(store, idx) THEN SgExtract(p, store)
              ELSE /\ sgPc' = [sgPc EXCEPT ![p] = "rec"]
                   /\ UNCHANGED transaction_ctr
    /\ UNCHANGED <<sgHosts, sgOther>>
    /\ UNCHANGED otherThanSg

\* msgReceived for the share of m.from in the slot ('S', m.index) of
\* mixnet_a: the value is created if it is not there; the last share
\* fires the chain of S.initialize, which p waits on.
SgReceive(m) ==
    /\ m \in sgChan
    /\ LET p == m.to
           store == sgStore[p] \cup {<<m.index, m.from>>}
       IN  /\ sgStore' = [sgStore EXCEPT ![p] = store]
           /\ IF /\ sgPc[p] = "rec"
                 /\ m.index = sgSlot[p][Len(sgSlot[p])]
                 /\ SgComplete(store, m.index)
              THEN SgExtract(p, store)
              ELSE UNCHANGED <<transaction_ctr, sgPc>>
    /\ sgChan' = sgChan \ {m}
    /\ UNCHANGED <<sgHosts, sgSlot, sgOther>>
    /\ UNCHANGED otherThanSg

\* createTransaction of a transaction of mixnet_b at p, up to S.initialize
SgOtherReconstruct(p) ==
    /\ "mixnet_b" \in sgHosts[p]
    /\ sgOther[p].pc = "idle"
    /\ sgOther[p].signed < MaxSignatures
    /\ sgOther' = [sgOther EXCEPT ![p] =
                      [pc |-> "rec", signed |-> @.signed + 1,
                       created |-> @.created \cup {transaction_ctr[p]}]]
    /\ UNCHANGED <<sgHosts, transaction_ctr, sgPc, sgSlot, sgStore, sgChan>>
    /\ UNCHANGED otherThanSg

\* The last share of the Rec of mixnet_b arrives at p: _extract_signature
SgOtherExtract(p) ==
    /\ sgOther[p].pc = "rec"
    /\ IF transaction_ctr[p] \in sgOther[p].created
       THEN /\ transaction_ctr' = [transaction_ctr EXCEPT ![p] = @ + 1]
            /\ sgOther' = [sgOther EXCEPT ![p].pc = "idle"]
       ELSE /\ sgOther' = [sgOther EXCEPT ![p].pc = "failed"]
            /\ UNCHANGED transaction_ctr
    /\ UNCHANGED <<sgHosts, sgPc, sgSlot, sgStore, sgChan>>
    /\ UNCHANGED otherThanSg

SgInit ==
    /\ CbIdle
    /\ DkgIdle
    /\ SessIdle
    /\ RecIdle
    /\ ShIdle
    /\ CmIdle
    /\ IpIdle
    /\ CpIdle
    /\ TxIdle
    /\ ValIdle
    /\ StIdle
    /\ BtIdle
    /\ RbIdle
    /\ MrIdle
    /\ sgHosts \in [SgRanks -> {{"mixnet_a"}, {"mixnet_a", "mixnet_b"}}]
    /\ transaction_ctr = [p \in SgRanks |-> 0]
    /\ sgPc = [p \in SgRanks |-> "idle"]
    /\ sgSlot = [p \in SgRanks |-> <<>>]
    /\ sgStore = [p \in SgRanks |-> {}]
    /\ sgChan = {}
    /\ sgOther = [p \in SgRanks |-> [pc |-> "idle", signed |-> 0, created |-> {}]]

SgNext ==
    \/ \E p \in SgRanks : SgReconstruct(p)
    \/ \E m \in sgChan : SgReceive(m)
    \/ \E p \in SgRanks : SgOtherReconstruct(p)
    \/ \E p \in SgRanks : SgOtherExtract(p)

SpecSg == SgInit /\ [][SgNext]_vars

-----------------------------------------------------------------------------
(* Properties of the signing.                                              *)

\* C38: for one disbursement transaction all peers of the session run the
\* Rec of the signature share S in the same (id, index) slot, also when
\* a process hosts another session that signs transactions or the peers
\* have signed different numbers of transactions before.
C38_SameSlotAtAllPeers ==
    \A p, q \in SgRanks : \A k \in 1..MaxSignatures :
        (k <= Len(sgSlot[p]) /\ k <= Len(sgSlot[q])) => sgSlot[p][k] = sgSlot[q][k]

\* The processes that host mixnet_a alone use the slots 0, 1, ... for its
\* transactions, and so agree with each other.
SgSingleSessionSlots ==
    \A p \in SgRanks : sgHosts[p] = {"mixnet_a"} =>
        \A k \in DOMAIN sgSlot[p] : sgSlot[p][k] = k - 1

====
